---- MODULE Spec2Model ----
(***************************************************************************)
(* A model of one invocation of the iza container runtime (src/main.cpp):  *)
(* argument parsing, the image store, rootfs assembly (overlay or deep     *)
(* copy), the cgroup-v2 scope, the cloned child and the parent's cleanup.  *)
(*                                                                         *)
(* Strings are sequences of pieces.  A piece is a single character where   *)
(* the code looks at characters (digits, signs, unit letters, ":") and an  *)
(* atomic run of other characters elsewhere ("alpine", "--memory=").       *)
(***************************************************************************)
EXTENDS Integers, Sequences, FiniteSets, TLC

VARIABLES
    argv,             \* the argument vector, argv[1] is the program name
    args,             \* the Arguments object (main.cpp:17-24)
    pc,               \* position of the parent in main()
    store,            \* /var/lib/iza/images: image reference -> state of its directory
    cache,            \* /var/lib/iza/cache: image reference -> state of its archive
    parent_pid,       \* getpid() of the parent
    container_rootfs, \* main's container_rootfs (main.cpp:856)
    ws,               \* /var/lib/iza/overlay/<container_id>/
    symlinks,         \* /tmp/iza-container-<n>: n -> target, for the names that exist
    legacyfs,         \* /tmp/iza-rootfs exists
    cg,               \* the CgroupManager object and its scope directory
    stack,            \* the clone stack: "none", "allocated", "freed"
    child,            \* the cloned child process
    exitStatus,       \* how the parent process ended
    log,              \* the operations the parent performed so far, in order
    clog,             \* the operations the child performed so far, in order
    iza_dirs,         \* which of /var/lib/iza/{images,cache,overlay} exist
    image_rootfs,     \* main's image_rootfs (main.cpp:862)
    hist              \* history of the invocations, for the properties only

vars == <<argv, args, pc, store, cache, parent_pid, container_rootfs, ws,
          symlinks, legacyfs, cg, stack, child, exitStatus, log, clog,
          iza_dirs, image_rootfs, hist>>

(***************************************************************************)
(* Bounds of the model.                                                    *)
(***************************************************************************)
\* parent pids are 1..NumPids
NumPids == 2
\* at most MaxInvocations invocations of iza follow one another
MaxInvocations == 3
\* the user command exits with a code in 0..MaxExitCode (and the child's own -1)
MaxExitCode == 1

(***************************************************************************)
(* Characters.                                                             *)
(***************************************************************************)
Digits == {"0", "1", "2", "3", "4", "5", "6", "7", "8", "9"}

DigitVal(c) ==
    CASE c = "0" -> 0 [] c = "1" -> 1 [] c = "2" -> 2 [] c = "3" -> 3
      [] c = "4" -> 4 [] c = "5" -> 5 [] c = "6" -> 6 [] c = "7" -> 7
      [] c = "8" -> 8 [] c = "9" -> 9

\* std::isdigit
isdigit(c) == c \in Digits

\* std::tolower on the letters the inputs use
tolower(c) ==
    CASE c = "B" -> "b" [] c = "K" -> "k" [] c = "M" -> "m" [] c = "G" -> "g"
      [] OTHER -> c

Range(s) == {s[i] : i \in 1..Len(s)}

\* the longest prefix of s made of digits, as a length
RECURSIVE DigitPrefixLen(_)
DigitPrefixLen(s) ==
    IF s = <<>> \/ ~isdigit(Head(s)) THEN 0 ELSE 1 + DigitPrefixLen(Tail(s))

\* the decimal value of a sequence of digits
RECURSIVE DecimalValue(_)
DecimalValue(s) ==
    IF s = <<>> THEN 0
    ELSE DecimalValue(SubSeq(s, 1, Len(s) - 1)) * 10 + DigitVal(s[Len(s)])

\* leading whitespace skipped by strtoll / strtod
RECURSIVE SkipSpace(_)
SkipSpace(s) == IF s # <<>> /\ Head(s) = " " THEN SkipSpace(Tail(s)) ELSE s

(***************************************************************************)
(* std::stoll (main.cpp:673): skips whitespace, takes an optional sign and *)
(* the longest run of digits, ignores what follows; throws when there is   *)
(* no digit.  ok = FALSE is the exception.                                 *)
(***************************************************************************)
stoll(str) ==
    LET s    == SkipSpace(str)
        neg  == s # <<>> /\ Head(s) = "-"
        body == IF s # <<>> /\ Head(s) \in {"-", "+"} THEN Tail(s) ELSE s
        n    == DigitPrefixLen(body)
        v    == DecimalValue(SubSeq(body, 1, n))
    IN  [ok |-> n > 0, val |-> IF neg THEN 0 - v ELSE v]

(***************************************************************************)
(* CgroupManager::parse_memory_limit (main.cpp:661-685).                   *)
(***************************************************************************)
parse_memory_limit(limit) ==
    IF limit = <<>> THEN 0 - 1
    ELSE LET last    == limit[Len(limit)]
             unit    == IF ~isdigit(last) THEN tolower(last) ELSE "b"
             num_str == IF ~isdigit(last) THEN SubSeq(limit, 1, Len(limit) - 1)
                        ELSE limit
             r       == stoll(num_str)
         IN  IF ~r.ok THEN 0 - 1
             ELSE CASE unit = "b" -> r.val
                    [] unit = "k" -> r.val * 1024
                    [] unit = "m" -> r.val * 1024 * 1024
                    [] unit = "g" -> r.val * 1024 * 1024 * 1024
                    [] OTHER -> 0 - 1

(***************************************************************************)
(* std::stod (main.cpp:614) on decimal literals: optional sign, digits,    *)
(* optional "." and digits.  The value is num / den; ok = FALSE is the     *)
(* std::invalid_argument exception.                                        *)
(***************************************************************************)
RECURSIVE Pow10(_)
Pow10(n) == IF n = 0 THEN 1 ELSE 10 * Pow10(n - 1)

stod(str) ==
    LET s     == SkipSpace(str)
        neg   == s # <<>> /\ Head(s) = "-"
        body  == IF s # <<>> /\ Head(s) \in {"-", "+"} THEN Tail(s) ELSE s
        ni    == DigitPrefixLen(body)
        rest  == SubSeq(body, ni + 1, Len(body))
        dot   == rest # <<>> /\ Head(rest) = "."
        frac  == IF dot THEN Tail(rest) ELSE <<>>
        nf    == DigitPrefixLen(frac)
        mag   == DecimalValue(SubSeq(body, 1, ni) \o SubSeq(frac, 1, nf))
    IN  [ok  |-> ni + nf > 0,
         num |-> IF neg THEN 0 - mag ELSE mag,
         den |-> Pow10(nf)]

(***************************************************************************)
(* Natural numbers as sequences of decimal digits, most significant first, *)
(* for values wider than the checker's integers.                           *)
(***************************************************************************)
ToDigits(s) == [i \in 1..Len(s) |-> DigitVal(s[i])]

RECURSIVE StripZeros(_)
StripZeros(d) == IF Len(d) > 1 /\ Head(d) = 0 THEN StripZeros(Tail(d)) ELSE d

\* the digits of a natural number c
RECURSIVE NatDigits(_)
NatDigits(c) == IF c < 10 THEN <<c>> ELSE NatDigits(c \div 10) \o <<c % 10>>

\* the digits of d * m + carry
RECURSIVE TimesPlus(_, _, _)
TimesPlus(d, m, carry) ==
    IF d = <<>> THEN (IF carry = 0 THEN <<>> ELSE NatDigits(carry))
    ELSE LET t == d[Len(d)] * m + carry
         IN  TimesPlus(SubSeq(d, 1, Len(d) - 1), m, t \div 10) \o <<t % 10>>

Times(d, m) == StripZeros(TimesPlus(d, m, 0))

\* a > b for digit sequences without leading zeros
Greater(a, b) ==
    \/ Len(a) > Len(b)
    \/ /\ Len(a) = Len(b)
       /\ \E i \in 1..Len(a) : a[i] > b[i] /\ \A j \in 1..(i - 1) : a[j] = b[j]

\* the value of a short digit sequence
RECURSIVE DigitsValue(_)
DigitsValue(d) ==
    IF d = <<>> THEN 0 ELSE DigitsValue(SubSeq(d, 1, Len(d) - 1)) * 10 + d[Len(d)]

\* quotient (digits) and remainder of d by a small m, carrying rem in
RECURSIVE DivRem(_, _, _)
DivRem(d, m, rem) ==
    IF d = <<>> THEN [q |-> <<>>, r |-> rem]
    ELSE LET cur  == rem * 10 + Head(d)
             rest == DivRem(Tail(d), m, cur % m)
         IN  [q |-> <<cur \div m>> \o rest.q, r |-> rest.r]

DivSmall(d, m) ==
    LET x == DivRem(d, m, 0) IN [q |-> StripZeros(x.q), r |-> x.r]

\* d + 1
RECURSIVE PlusOne(_)
PlusOne(d) ==
    IF d = <<>> THEN <<1>>
    ELSE IF d[Len(d)] < 9 THEN SubSeq(d, 1, Len(d) - 1) \o <<d[Len(d)] + 1>>
    ELSE PlusOne(SubSeq(d, 1, Len(d) - 1)) \o <<0>>

\* floor(d / 2^n)
RECURSIVE ShiftRight(_, _)
ShiftRight(d, n) ==
    IF n = 0 THEN d
    ELSE LET s == IF n > 16 THEN 16 ELSE n
         IN  ShiftRight(DivSmall(d, 2 ^ s).q, n - s)

(***************************************************************************)
(* IEEE 754 binary64 with round-to-nearest-even, for positive values: a    *)
(* double is mant / 2^exp with mant below 2^53.                            *)
(***************************************************************************)
TwoTo52 == <<4, 5, 0, 3, 5, 9, 9, 6, 2, 7, 3, 7, 0, 4, 9, 6>>
TwoTo53 == <<9, 0, 0, 7, 1, 9, 9, 2, 5, 4, 7, 4, 0, 9, 9, 2>>

\* x rounded to nearest, ties to even, where x = qr.q + qr.r / m
RoundNearestEven(qr, m) ==
    IF 2 * qr.r > m \/ (2 * qr.r = m /\ qr.q[Len(qr.q)] % 2 = 1)
      THEN PlusOne(qr.q) ELSE qr.q

\* d * 2^n
RECURSIVE ShiftLeft(_, _)
ShiftLeft(d, n) ==
    IF n = 0 THEN d
    ELSE LET s == IF n > 16 THEN 16 ELSE n
         IN  ShiftLeft(Times(d, 2 ^ s), n - s)

\* q has exactly 53 bits
Has53Bits(q) == ~Greater(TwoTo52, q) /\ Greater(TwoTo53, q)

\* the double nearest to n / den, n given as digits and 2^-27 <= n / den < 2^53:
\* the exponent is the one that gives the quotient 53 bits
NearestDouble(n, den) ==
    LET e  == CHOOSE x \in 0..80 : Has53Bits(DivSmall(ShiftLeft(n, x), den).q)
        qr == DivSmall(ShiftLeft(n, e), den)
    IN  [mant |-> RoundNearestEven(qr, den), exp |-> e]

\* the number of low bits an integer m of 53 to 70 bits has beyond 53
ExcessBits(m) == CHOOSE k \in 0..17 : Has53Bits(DivSmall(m, 2 ^ k).q)

\* the double product of a double x and an integer c below 2^17
double_times(x, c) ==
    LET m == Times(x.mant, c)
        k == ExcessBits(m)
    IN  [mant |-> RoundNearestEven(DivSmall(m, 2 ^ k), 2 ^ k), exp |-> x.exp - k]

\* (int)x for a double x with x.exp >= 0 that fits an int
double_to_int(x) == DigitsValue(ShiftRight(x.mant, x.exp))

\* the period written to cpu.max
period == 100000

\* quota = (int)(cpu_cores * period), main.cpp:617-618, for the positive
\* value d.num / d.den that std::stod returned as a double
cpu_quota(d) ==
    double_to_int(double_times(NearestDouble(NatDigits(d.num), d.den), period))

(***************************************************************************)
(* Arguments (main.cpp:17-145).  argv[1] is the program name, so the C     *)
(* index i is the TLA+ index i + 1 and argc = Len(argv).                   *)
(***************************************************************************)
EmptyStr == <<>>

DefaultArguments ==
    [command_type |-> EmptyStr, memory_limit |-> EmptyStr, cpu_limit |-> EmptyStr,
     image_name |-> EmptyStr, command |-> <<>>, valid |-> FALSE]

\* std::filesystem::exists(images_dir + "/" + name + "/rootfs") for a store st
RootfsExists(st, name) == name \in DOMAIN st /\ st[name].rootfs

\* Arguments::is_available_image (main.cpp:120-125)
is_available_image(st, name) == RootfsExists(st, name)

\* the variant of starts_with that matches nothing
starts_with_never(arg, prefix) == FALSE

\* arg.starts_with(prefix) for a prefix that is one piece
starts_with(arg, prefix) == arg # <<>> /\ Head(arg) = prefix

\* the variant of has_colon that never finds one
has_colon_never(arg) == FALSE

\* arg.find(':') != npos
has_colon(arg) == ":" \in Range(arg)

\* the while loop of parse_run_command (main.cpp:75-105), from C index i
RECURSIVE run_loop(_, _, _, _)
run_loop(av, st, i, a) ==
    LET argc == Len(av) IN
    IF i >= argc THEN a
    ELSE LET arg == av[i + 1] IN
         IF arg = <<"--memory">> /\ i + 1 < argc
           THEN run_loop(av, st, i + 2, [a EXCEPT !.memory_limit = av[i + 2]])
         ELSE IF arg = <<"--cpus">> /\ i + 1 < argc
           THEN run_loop(av, st, i + 2, [a EXCEPT !.cpu_limit = av[i + 2]])
         ELSE IF starts_with(arg, "--memory=")
           THEN run_loop(av, st, i + 1, [a EXCEPT !.memory_limit = Tail(arg)])
         ELSE IF starts_with(arg, "--cpus=")
           THEN run_loop(av, st, i + 1, [a EXCEPT !.cpu_limit = Tail(arg)])
         ELSE IF has_colon(arg) \/ is_available_image(st, arg)
           THEN [a EXCEPT !.image_name = arg, !.command = SubSeq(av, i + 2, argc)]
         ELSE [a EXCEPT !.command = SubSeq(av, i + 1, argc)]

\* Arguments::parse_run_command (main.cpp:68-118)
parse_run_command(av, st, a0) ==
    IF Len(av) < 3 THEN a0
    ELSE LET a == run_loop(av, st, 2, a0) IN
         IF a.command = <<>> /\ a.image_name # EmptyStr
           THEN [a EXCEPT !.command = <<(<<"/bin/bash">>)>>, !.valid = TRUE]
         ELSE IF a.command = <<>> THEN a
         ELSE [a EXCEPT !.valid = TRUE]

\* Arguments::parse_pull_command (main.cpp:48-57)
parse_pull_command(av, a0) ==
    IF Len(av) # 3 THEN a0 ELSE [a0 EXCEPT !.image_name = av[3], !.valid = TRUE]

\* Arguments::parse_images_command (main.cpp:59-66)
parse_images_command(av, a0) ==
    IF Len(av) # 2 THEN a0 ELSE [a0 EXCEPT !.valid = TRUE]

\* Arguments::parse (main.cpp:26-45)
parse(av, st) ==
    IF Len(av) < 2 THEN DefaultArguments
    ELSE LET a0 == [DefaultArguments EXCEPT !.command_type = av[2]] IN
         IF av[2] = <<"pull">> THEN parse_pull_command(av, a0)
         ELSE IF av[2] = <<"images">> THEN parse_images_command(av, a0)
         ELSE IF av[2] = <<"run">> THEN parse_run_command(av, st, a0)
         ELSE a0

(***************************************************************************)
(* Inputs.                                                                 *)
(***************************************************************************)
ALPINE_318 == <<"alpine", ":", "3", ".", "1", "8">>
ALPINE     == <<"alpine">>
ALPINE_LATEST == <<"alpine", ":", "latest">>
FOO_1      == <<"foo", ":", "1">>
BIN_SH     == <<"/bin/sh">>

ImageRefs == {ALPINE_318, ALPINE, ALPINE_LATEST, FOO_1}

\* the entries of the archive the download URL serves, in archive order
ArchiveEntries == <<"bin/sh", "etc/os-release">>

\* states of <images>/<ref>/: no directory; the record a successful pull
\* leaves; what a failed extraction leaves; a record pulled when the archive
\* still held another file
AbsentRecord   == [rootfs |-> FALSE, files |-> {}]
CompleteRecord == [rootfs |-> TRUE, files |-> Range(ArchiveEntries)]
PartialRecord  == [rootfs |-> TRUE, files |-> {ArchiveEntries[1]}]
StaleRecord    == [rootfs |-> TRUE, files |-> Range(ArchiveEntries) \cup {"old"}]

\* values given to --memory and --cpus
MemoryValues ==
    {<<"1", "0", "0", "m">>, <<"1", "g">>, <<"0">>, <<"a", "b", "c">>, <<"1", "x", "m">>}
CpuValues    == {<<"0", ".", "5">>, <<"2">>, <<"0">>, <<"-", "1">>, <<"a", "b", "c">>}

\* both forms of a flag, or no flag at all
FlagForms(flag, eqflag, values) ==
    {<<>>} \cup {<<(<<flag>>), v>> : v \in values}
           \cup {<<(<<eqflag>> \o v)>> : v \in {<<"1", "0", "0", "m">>, <<"0", ".", "5">>} \cap values}

RunTargets == {<<ALPINE_318, BIN_SH>>, <<ALPINE_318>>, <<ALPINE, BIN_SH>>, <<BIN_SH>>, <<>>}

\* the flag combinations tried: each flag alone in every form and value, and
\* both flags together for a valid and an invalid pair
FlagCombos ==
    {m \o c : m \in FlagForms("--memory", "--memory=", MemoryValues),
              c \in {<<>>}}
    \cup {c : c \in FlagForms("--cpus", "--cpus=", CpuValues)}
    \cup {<<(<<"--memory">>), (<<"1", "0", "0", "m">>), (<<"--cpus">>), (<<"0", ".", "5">>)>>,
          <<(<<"--memory">>), (<<"1", "0", "0", "m">>), (<<"--cpus">>), (<<"a", "b", "c">>)>>}

\* a flag with no value after it, and flags after the image
OddRunArgvs ==
    {<<(<<"iza">>), (<<"run">>), (<<"--memory">>)>>,
     <<(<<"iza">>), (<<"run">>), ALPINE_318, (<<"--cpus=", "0", ".", "5">>)>>,
     <<(<<"iza">>), (<<"run">>), BIN_SH, (<<"--memory">>), (<<"1", "g">>)>>}

RunArgvs ==
    {<<(<<"iza">>), (<<"run">>)>> \o f \o t : f \in FlagCombos, t \in RunTargets}
    \cup OddRunArgvs

OtherArgvs ==
    {<<(<<"iza">>)>>, <<(<<"iza">>), (<<"bogus">>)>>,
     <<(<<"iza">>), (<<"images">>)>>, <<(<<"iza">>), (<<"pull">>)>>}
    \cup {<<(<<"iza">>), (<<"pull">>), r>> : r \in ImageRefs}

ArgvInputs == RunArgvs \cup OtherArgvs

\* image stores left by earlier pulls: absent, a complete record, or the
\* directory with rootfs/ that a failed extraction leaves
StoreInputs ==
    {[r \in ImageRefs |-> AbsentRecord],
     [r \in ImageRefs |-> IF r = ALPINE_318 THEN CompleteRecord ELSE AbsentRecord],
     [r \in ImageRefs |-> IF r \in {ALPINE_318, ALPINE} THEN CompleteRecord
                          ELSE AbsentRecord],
     [r \in ImageRefs |-> IF r = ALPINE_318 THEN PartialRecord ELSE AbsentRecord]}

\* signals that can kill the child
Signals == {9, 15}

(***************************************************************************)
(* The state after construction.                                           *)
(***************************************************************************)
NoWorkspace == [exists |-> FALSE, sub |-> {}, mounted |-> FALSE, copy |-> "none"]

\* the content "max" of memory.max and cpu.max: no limit
NoLimit == 0 - 1

NoCgroup ==
    [constructed |-> FALSE, created |-> FALSE, dir |-> FALSE,
     memory_max |-> NoLimit, cpu_max |-> <<NoLimit, 100000>>, procs |-> {}]

NoPath == [kind |-> "none", n |-> 0]

\* how and val record how the child ended: "exit" with its exit code, or
\* "signal" with the signal number; status is the wait status the kernel reports
NoChild == [state |-> "none", pc |-> "none", pid |-> 0, rootfs_path |-> NoPath,
            how |-> "none", val |-> 0, status |-> 0,
            exec_path |-> <<>>, exec_args |-> <<>>]

Running == [kind |-> "running", code |-> 0]

\* the history at the start of the first invocation
\*   n:            the number of the current invocation
\*   store0/cache0: the image store and the cache when it started
\*   lastPull:     the outcome of the latest pull of each reference
\*   okPulls:      how many successful pulls of the reference followed one another
\*   firstContent: the record the first of those pulls left
\*   firstResolve: what the first resolve after the latest pull returned
\*   resolves:     the number of resolves after the latest pull
NoHistory(st, ca) ==
    [n |-> 1, store0 |-> st, cache0 |-> ca,
     lastPull |-> [r \in ImageRefs |-> "none"],
     okPulls |-> [r \in ImageRefs |-> 0],
     firstContent |-> [r \in ImageRefs |-> AbsentRecord],
     firstResolve |-> [r \in ImageRefs |-> EmptyStr],
     resolves |-> [r \in ImageRefs |-> 0]]

Init ==
    /\ argv \in ArgvInputs
    /\ args = DefaultArguments
    /\ pc = "start"
    /\ store \in StoreInputs
    /\ cache = [r \in ImageRefs |-> "absent"]
    /\ parent_pid \in 1..NumPids
    /\ container_rootfs = "none"
    /\ ws = NoWorkspace
    /\ symlinks = [n \in 0..NumPids |-> "none"]
    /\ legacyfs = FALSE
    /\ cg = NoCgroup
    /\ stack = "none"
    /\ child = NoChild
    /\ exitStatus = Running
    /\ log = <<>>
    /\ clog = <<>>
    /\ iza_dirs \in {{}, {"images", "cache", "overlay"}}
    /\ (iza_dirs = {}) => (store = [r \in ImageRefs |-> AbsentRecord])
    /\ image_rootfs = EmptyStr
    /\ hist = NoHistory(store, cache)

(***************************************************************************)
(* Helpers shared by the steps of main().                                  *)
(***************************************************************************)
\* rmdir(2) on a cgroup directory fails with EBUSY while it holds processes
rmdir_cgroup(c) == IF c.procs = {} THEN [c EXCEPT !.dir = FALSE] ELSE c

\* the variant of cleanup that forgets the rmdir
cleanup_without_rmdir(c) == IF ~c.created THEN c ELSE [c EXCEPT !.created = FALSE]

\* CgroupManager::cleanup (main.cpp:650-658)
cleanup(c) == IF ~c.created THEN c ELSE [rmdir_cgroup(c) EXCEPT !.created = FALSE]

\* what cleanup() adds to the log
cleanup_log(c) ==
    IF ~c.created THEN <<>>
    ELSE IF c.procs = {} THEN <<"cgroup_rmdir">> ELSE <<"cgroup_rmdir_busy">>

\* CgroupManager::~CgroupManager (main.cpp:559-561), run when main returns
\* after the object was constructed at main.cpp:899
destructor(c) == IF c.constructed THEN cleanup(c) ELSE c
destructor_log(c) == IF c.constructed THEN cleanup_log(c) ELSE <<>>

\* the exit status of a process whose main returns r
ExitCode(r) == [kind |-> "exit", code |-> r % 256]

\* umount(2) of merged/: detaches the overlay when one is mounted there
umount(w) == [w EXCEPT !.mounted = FALSE]

\* a removal that leaves the directories in place
remove_all_kept(w) == w

\* std::filesystem::remove_all of a workspace that holds no mount point
remove_all(w) == NoWorkspace

\* a teardown that gives up on a workspace with a mounted overlay
cleanup_overlay_mounted_kept(w) == IF w.mounted THEN w ELSE remove_all(w)

\* OverlayFS::cleanup_overlay (main.cpp:529-543)
cleanup_overlay(w) ==
    remove_all(IF w.exists /\ "merged" \in w.sub THEN umount(w) ELSE w)

\* std::filesystem::remove("/tmp/iza-container-" + to_string(pid))
remove_symlink(links, pid) == [links EXCEPT ![pid] = "none"]

\* main returns r with cgroup object c, having logged l
Return(r, c, l) ==
    /\ pc' = "done"
    /\ exitStatus' = ExitCode(r)
    /\ cg' = destructor(c)
    /\ log' = l \o destructor_log(c) \o <<"exit">>

\* an exception nobody catches: std::terminate.  Whether the stack is
\* unwound (and ~CgroupManager run) first is implementation-defined.
Terminate(c, l) ==
    \E unwind \in BOOLEAN :
        /\ pc' = "done"
        /\ exitStatus' = [kind |-> "abort", code |-> 0]
        /\ cg' = IF unwind THEN destructor(c) ELSE c
        /\ log' = l \o (IF unwind THEN destructor_log(c) ELSE <<>>) \o <<"abort">>

\* the error exits of an image-based run tear down the workspace and the
\* symlink (main.cpp:907-910 and its copies), then return 1
FailAfterRootfs(c, l) ==
    /\ IF args.image_name # EmptyStr
         THEN /\ ws' = cleanup_overlay(ws)
              /\ symlinks' = remove_symlink(symlinks, parent_pid)
              /\ Return(1, c, l \o <<"cleanup_overlay", "remove_symlink">>)
         ELSE /\ UNCHANGED <<ws, symlinks>>
              /\ Return(1, c, l)

use_cgroups == args.memory_limit # EmptyStr \/ args.cpu_limit # EmptyStr

\* ImageManager::ImageManager (main.cpp:164-168), constructed at main.cpp:824
image_manager_dirs(dirs) == dirs \cup {"images", "cache"}

\* OverlayFS::OverlayFS (main.cpp:436-438), constructed at main.cpp:857
overlay_dirs(dirs) == dirs \cup {"overlay"}

(***************************************************************************)
(* main.cpp:810-835: parse the arguments, construct the ImageManager and   *)
(* dispatch.                                                               *)
(***************************************************************************)
ParseArgs ==
    /\ pc = "start"
    /\ LET a == parse(argv, store) IN
         /\ args' = a
         /\ IF ~a.valid
              THEN Return(1, cg, log)
              ELSE /\ pc' = (IF a.command_type = <<"pull">> THEN "pull"
                             ELSE IF a.command_type = <<"images">> THEN "images"
                             ELSE "run")
                   /\ UNCHANGED <<cg, exitStatus, log>>
    /\ iza_dirs' = IF parse(argv, store).valid THEN image_manager_dirs(iza_dirs)
                   ELSE iza_dirs
    /\ UNCHANGED <<image_rootfs, hist, clog, argv, store, cache, parent_pid,
                   container_rootfs, ws, symlinks, legacyfs, stack, child>>

\* the name part of an image reference (main.cpp:174-182)
RECURSIVE name_of(_)
name_of(image) ==
    IF image = <<>> \/ Head(image) = ":" THEN <<>>
    ELSE <<Head(image)>> \o name_of(Tail(image))

\* the variant of supported that has no allow-list
supported_any(name) == TRUE

\* the allow-list of pull_image (main.cpp:187-196)
supported(name) == name \in {<<"ubuntu">>, <<"alpine">>}

(***************************************************************************)
(* ImageManager::download_file (main.cpp:284-322): the cache entry after-  *)
(* wards and the result, for the outcomes                                  *)
(*   "ok":              the body of a 2xx response was written             *)
(*   "http_error":      the server answered with an error status; without  *)
(*                      CURLOPT_FAILONERROR curl_easy_perform returns      *)
(*                      CURLE_OK and the error body is what was written    *)
(*   "transport_error": curl_easy_perform failed (also a connection closed *)
(*                      before the announced length arrived)               *)
(*   "fopen_failed":    the cache file could not be opened                 *)
(***************************************************************************)
DownloadOutcomes == {"ok", "http_error", "transport_error", "fopen_failed"}

download_file(entry, dl) ==
    CASE dl = "ok" -> "complete"
      [] dl = "http_error" -> "error_body"
      [] dl = "transport_error" -> "absent"
      [] OTHER -> entry

download_result(dl) == IF dl \in {"ok", "http_error"} THEN 0 ELSE 0 - 1

(***************************************************************************)
(* ImageManager::extract_image (main.cpp:324-408): the image directory     *)
(* afterwards and the result.  An outcome says how the loop over the       *)
(* entries ended and how many entries had been written by then.            *)
(***************************************************************************)
ExtractOutcomes ==
    {[res |-> "ok", n |-> Len(ArchiveEntries)], [res |-> "open_failed", n |-> 0]}
    \cup {[res |-> "entry_failed", n |-> k] : k \in 0..(Len(ArchiveEntries) - 1)}

\* the variant of extract_image that extracts into <images>/<ref>/ itself
extract_image_no_rootfs(rec, o) ==
    [rootfs |-> FALSE, files |-> {ArchiveEntries[i] : i \in 1..o.n}]

\* the variant of extract_image that extracts over the existing directory
extract_image_merge(rec, o) ==
    [rootfs |-> TRUE, files |-> rec.files \cup {ArchiveEntries[i] : i \in 1..o.n}]

\* remove_all, create_directories, then the entries written (main.cpp:328-399)
extract_image(rec, o) ==
    [rootfs |-> TRUE, files |-> {ArchiveEntries[i] : i \in 1..o.n}]

extract_result(o) == IF o.res = "ok" THEN 0 ELSE 0 - 1

\* the file name of main.cpp:199 and the directory name of main.cpp:206:
\* both use the reference as it was given
cache_key(image) == image
record_key(image) == image

(***************************************************************************)
(* ImageManager::pull_image (main.cpp:170-214) and main's return of its    *)
(* result (main.cpp:827-831).                                              *)
(***************************************************************************)
pull_result(dl, ex) ==
    IF dl \in {"fopen_failed", "transport_error"} THEN 0 - 1
    ELSE IF ex # "ok" THEN 0 - 1
    ELSE 0

\* the history after a pull of image that left the record rec
pull_history(h, image, ok, rec) ==
    IF image \notin ImageRefs THEN h
    ELSE [h EXCEPT !.lastPull[image] = IF ok THEN "ok" ELSE "failed",
                   !.okPulls[image] = IF ok THEN @ + 1 ELSE 0,
                   !.firstContent[image] =
                        IF ~ok THEN AbsentRecord
                        ELSE IF h.okPulls[image] = 0 THEN rec ELSE @,
                   !.firstResolve[image] = EmptyStr,
                   !.resolves[image] = 0]

PullImage ==
    /\ pc = "pull"
    /\ LET image == args.image_name IN
       IF ~supported(name_of(image))
         THEN /\ Return(0 - 1, cg, log \o <<"pull_unsupported", "pull_failed">>)
              /\ hist' = pull_history(hist, image, FALSE, AbsentRecord)
              /\ UNCHANGED <<store, cache>>
         ELSE \E dl \in DownloadOutcomes, o \in ExtractOutcomes :
                /\ dl = "http_error" => o.res = "open_failed"
                /\ download_result(dl) # 0 => o.res = "ok"
                /\ cache' = [cache EXCEPT ![cache_key(image)] = download_file(@, dl)]
                /\ store' = IF download_result(dl) # 0 THEN store
                            ELSE [store EXCEPT ![record_key(image)] =
                                                    extract_image(@, o)]
                /\ LET ok == pull_result(dl, o.res) = 0 IN
                   /\ hist' = pull_history(hist, image, ok, store'[record_key(image)])
                   /\ Return(pull_result(dl, o.res), cg,
                          log \o <<"download_" \o dl>>
                              \o (IF download_result(dl) = 0
                                    THEN <<"extract_started", "extract_" \o o.res>>
                                    ELSE <<>>)
                              \o (IF ok THEN <<"pull_ok">> ELSE <<"pull_failed">>))
    /\ UNCHANGED <<iza_dirs, image_rootfs, clog, argv, args, parent_pid,
                   container_rootfs, ws, symlinks, legacyfs, stack, child>>

\* ImageManager::list_images (main.cpp:216-270) and main.cpp:831-835
ListImages ==
    /\ pc = "images"
    /\ Return(0, cg, log \o <<"list_images">>)
    /\ UNCHANGED <<iza_dirs, image_rootfs, hist, clog, argv, args, store, cache, parent_pid, container_rootfs, ws,
                   symlinks, legacyfs, stack, child>>

\* images_dir + "/" + image_name + "/rootfs" (main.cpp:273-274)
rootfs_dir(image) == <<"/var/lib/iza/images", "/">> \o image \o <<"/rootfs">>

\* ImageManager::get_image_rootfs (main.cpp:272-281): "" when absent
get_image_rootfs(st, image) ==
    IF RootfsExists(st, image) THEN rootfs_dir(image) ELSE EmptyStr

\* the history after a resolve of image that returned path
resolve_history(h, image, path) ==
    IF image \notin ImageRefs THEN h
    ELSE [h EXCEPT !.firstResolve[image] = IF h.resolves[image] = 0 THEN path ELSE @,
                   !.resolves[image] = @ + 1]

(***************************************************************************)
(* main.cpp:855-867: construct the OverlayFS and resolve the image of an   *)
(* image-based run.                                                        *)
(***************************************************************************)
ResolveImage ==
    /\ pc = "run"
    /\ args.image_name # EmptyStr
    /\ iza_dirs' = overlay_dirs(iza_dirs)
    /\ image_rootfs' = get_image_rootfs(store, args.image_name)
    /\ hist' = resolve_history(hist, args.image_name, image_rootfs')
    /\ IF get_image_rootfs(store, args.image_name) = EmptyStr
         THEN Return(1, cg, log \o <<"image_not_found">>)
         ELSE /\ pc' = "setup_overlay"
              /\ log' = log \o <<"resolve_ok">>
              /\ UNCHANGED <<cg, exitStatus>>
    /\ UNCHANGED <<clog, argv, args, store, cache, parent_pid, container_rootfs, ws,
                   symlinks, legacyfs, stack, child>>

(***************************************************************************)
(* setup_legacy_filesystem (main.cpp:689-744) and main.cpp:888-896.        *)
(***************************************************************************)
SetupLegacy ==
    /\ pc = "run"
    /\ args.image_name = EmptyStr
    /\ \E mkdir_ok \in BOOLEAN :
        IF mkdir_ok
          THEN /\ legacyfs' = TRUE
               /\ container_rootfs' = "/tmp/iza-rootfs"
               /\ pc' = "cgroup"
               /\ log' = log \o <<"setup_legacy">>
               /\ UNCHANGED <<cg, exitStatus>>
          ELSE /\ legacyfs' = FALSE
               /\ Return(1, cg, log)
               /\ UNCHANGED container_rootfs
    /\ iza_dirs' = overlay_dirs(iza_dirs)
    /\ UNCHANGED <<image_rootfs, hist, clog, argv, args, store, cache, parent_pid, ws,
                   symlinks, stack, child>>

(***************************************************************************)
(* OverlayFS::setup_bind_mount_fallback (main.cpp:441-466): the workspace  *)
(* it leaves and its result.  A failed copy leaves what was copied so far. *)
(***************************************************************************)
fallback_workspace(w, copy_ok) ==
    LET c == remove_all(w) IN
    [exists |-> TRUE, sub |-> c.sub \cup {"rootfs"}, mounted |-> c.mounted,
     copy |-> IF copy_ok THEN "full" ELSE "partial"]

fallback_result(copy_ok) == IF copy_ok THEN 0 ELSE 0 - 1

\* the workspace after a successful overlay mount (main.cpp:504-520)
overlay_workspace ==
    [exists |-> TRUE, sub |-> {"upper", "work", "merged"}, mounted |-> TRUE,
     copy |-> "none"]

\* std::filesystem::create_directories of upper/, work/ and merged/
\* (main.cpp:504-511): all three, or the first one only when a later one throws
create_overlay_dirs(w, dirs_ok) ==
    [exists |-> TRUE,
     sub |-> w.sub \cup (IF dirs_ok THEN {"upper", "work", "merged"} ELSE {"upper"}),
     mounted |-> w.mounted, copy |-> w.copy]

(***************************************************************************)
(* OverlayFS::setup_overlay (main.cpp:493-527) on the workspace w.         *)
(*   supported: /proc/filesystems lists overlay                            *)
(*   dirs_ok:   create_directories of upper/work/merged did not throw      *)
(*   mount_ok:  validate_directories and mount(2) of the overlay succeeded *)
(*   copy_ok:   the deep copy of the fallback did not throw                *)
(* The result is the workspace left, the value returned, the path stored   *)
(* in merged_dir, the strategy used, and whether remove_all threw on a     *)
(* workspace that still holds a mount point (main.cpp:450, outside the try *)
(* block).                                                                 *)
(***************************************************************************)
setup_overlay(w, supported_fs, dirs_ok, mount_ok, copy_ok) ==
    LET w1 == IF supported_fs THEN create_overlay_dirs(cleanup_overlay(w), dirs_ok)
              ELSE w
    IN  IF supported_fs /\ dirs_ok /\ mount_ok
          THEN [ws |-> [w1 EXCEPT !.mounted = TRUE], result |-> 0,
                path |-> "merged", how |-> "overlay_mounted", threw |-> FALSE]
        ELSE IF w1.mounted
          THEN [ws |-> w1, result |-> 0 - 1, path |-> "rootfs",
                how |-> "remove_all_throws", threw |-> TRUE]
        ELSE [ws |-> fallback_workspace(w1, copy_ok),
              result |-> fallback_result(copy_ok), path |-> "rootfs",
              how |-> IF copy_ok THEN "deep_copy" ELSE "deep_copy_failed",
              threw |-> FALSE]

\* main.cpp:871-876
SetupOverlay ==
    /\ pc = "setup_overlay"
    /\ \E supported_fs \in BOOLEAN, dirs_ok \in BOOLEAN, mount_ok \in BOOLEAN,
          copy_ok \in BOOLEAN :
        LET r  == setup_overlay(ws, supported_fs, dirs_ok, mount_ok, copy_ok)
            l1 == IF supported_fs THEN log \o <<"cleanup_overlay">> ELSE log
        IN  /\ ws' = r.ws
            /\ container_rootfs' = r.path
            /\ IF r.threw THEN Terminate(cg, l1 \o <<r.how>>)
               ELSE IF r.result = 0
                 THEN /\ pc' = "symlink"
                      /\ log' = l1 \o <<r.how>>
                      /\ UNCHANGED <<cg, exitStatus>>
               ELSE Return(1, cg, l1 \o <<r.how>>)
    /\ UNCHANGED <<iza_dirs, image_rootfs, hist, clog, argv, args, store, cache, parent_pid, symlinks, legacyfs, stack,
                   child>>

(***************************************************************************)
(* main.cpp:878-886: publish the rootfs under /tmp/iza-container-<pid>.    *)
(***************************************************************************)
CreateSymlink ==
    /\ pc = "symlink"
    /\ \E symlink_ok \in BOOLEAN :
        IF symlink_ok
          THEN /\ symlinks' = [symlinks EXCEPT ![parent_pid] = container_rootfs]
               /\ pc' = "cgroup"
               /\ log' = log \o <<"symlink">>
               /\ UNCHANGED <<ws, cg, exitStatus>>
          ELSE /\ symlinks' = remove_symlink(symlinks, parent_pid)
               /\ ws' = cleanup_overlay(ws)
               /\ Return(1, cg, log \o <<"cleanup_overlay">>)
    /\ UNCHANGED <<iza_dirs, image_rootfs, hist, clog, argv, args, store, cache, parent_pid, container_rootfs, legacyfs,
                   stack, child>>

(***************************************************************************)
(* CgroupManager::create_cgroup (main.cpp:563-589): the object afterwards. *)
(*   ok: cgroup.controllers exists and mkdir succeeded                     *)
(***************************************************************************)
create_cgroup(c, ok) ==
    IF ok THEN [c EXCEPT !.created = TRUE, !.dir = TRUE] ELSE c

\* main.cpp:898-913: construct the CgroupManager and create the scope
CreateCgroup ==
    /\ pc = "cgroup"
    /\ LET c0 == [cg EXCEPT !.constructed = TRUE] IN
       IF ~use_cgroups
         THEN /\ cg' = c0
              /\ pc' = "alloc_stack"
              /\ UNCHANGED <<ws, symlinks, exitStatus, log>>
         ELSE \E ok \in BOOLEAN :
                IF ok
                  THEN /\ cg' = create_cgroup(c0, TRUE)
                       /\ pc' = "set_memory"
                       /\ log' = log \o <<"create_cgroup">>
                       /\ UNCHANGED <<ws, symlinks, exitStatus>>
                  ELSE FailAfterRootfs(create_cgroup(c0, FALSE), log)
    /\ UNCHANGED <<iza_dirs, image_rootfs, hist, clog, argv, args, store, cache, parent_pid, container_rootfs, legacyfs,
                   stack, child>>

\* the variant of the validity test that lets a limit of 0 bytes through
memory_limit_invalid_zero_ok(bytes) == bytes < 0

\* main.cpp:595: the byte count set_memory_limit refuses
memory_limit_invalid(bytes) == bytes <= 0

\* the variant of set_memory_limit that does not look at created
set_memory_limit_result_unguarded(c, limit, open_ok) ==
    IF memory_limit_invalid(parse_memory_limit(limit)) THEN 0 - 1
    ELSE IF ~open_ok THEN 0 - 1
    ELSE 0

(***************************************************************************)
(* CgroupManager::set_memory_limit (main.cpp:591-609): the object after-   *)
(* wards and the result.  open_ok: memory.max could be opened.             *)
(***************************************************************************)
set_memory_limit_result(c, limit, open_ok) ==
    IF ~c.created THEN 0 - 1
    ELSE IF memory_limit_invalid(parse_memory_limit(limit)) THEN 0 - 1
    ELSE IF ~open_ok THEN 0 - 1
    ELSE 0

set_memory_limit(c, limit, open_ok) ==
    IF set_memory_limit_result(c, limit, open_ok) = 0
      THEN [c EXCEPT !.memory_max = parse_memory_limit(limit)]
      ELSE c

\* main.cpp:915-925
SetMemoryLimit ==
    /\ pc = "set_memory"
    /\ IF args.memory_limit = EmptyStr
         THEN /\ pc' = "set_cpu"
              /\ UNCHANGED <<cg, ws, symlinks, exitStatus, log>>
         ELSE \E open_ok \in BOOLEAN :
                IF set_memory_limit_result(cg, args.memory_limit, open_ok) = 0
                  THEN /\ cg' = set_memory_limit(cg, args.memory_limit, open_ok)
                       /\ pc' = "set_cpu"
                       /\ log' = log \o <<"set_memory">>
                       /\ UNCHANGED <<ws, symlinks, exitStatus>>
                  ELSE FailAfterRootfs(cg, log \o <<"set_memory_failed">>)
    /\ UNCHANGED <<iza_dirs, image_rootfs, hist, clog, argv, args, store, cache, parent_pid, container_rootfs, legacyfs,
                   stack, child>>

(***************************************************************************)
(* CgroupManager::set_cpu_limit (main.cpp:611-632).  std::stod throws on a *)
(* literal without digits and nothing catches it: "throw".                 *)
(***************************************************************************)
set_cpu_limit_result(c, limit, open_ok) ==
    IF ~c.created THEN "fail"
    ELSE IF ~stod(limit).ok THEN "throw"
    ELSE IF stod(limit).num <= 0 THEN "fail"
    ELSE IF ~open_ok THEN "fail"
    ELSE "ok"

set_cpu_limit(c, limit, open_ok) ==
    IF set_cpu_limit_result(c, limit, open_ok) = "ok"
      THEN [c EXCEPT !.cpu_max = <<cpu_quota(stod(limit)), period>>]
      ELSE c

\* main.cpp:927-937
SetCpuLimit ==
    /\ pc = "set_cpu"
    /\ IF args.cpu_limit = EmptyStr
         THEN /\ pc' = "alloc_stack"
              /\ UNCHANGED <<cg, ws, symlinks, exitStatus, log>>
         ELSE \E open_ok \in BOOLEAN :
                LET r == set_cpu_limit_result(cg, args.cpu_limit, open_ok) IN
                CASE r = "ok" ->
                       /\ cg' = set_cpu_limit(cg, args.cpu_limit, open_ok)
                       /\ pc' = "alloc_stack"
                       /\ log' = log \o <<"set_cpu">>
                       /\ UNCHANGED <<ws, symlinks, exitStatus>>
                  [] r = "throw" ->
                       /\ Terminate(cg, log \o <<"stod_throws">>)
                       /\ UNCHANGED <<ws, symlinks>>
                  [] OTHER -> FailAfterRootfs(cg, log \o <<"set_cpu_failed">>)
    /\ UNCHANGED <<iza_dirs, image_rootfs, hist, clog, argv, args, store, cache, parent_pid, container_rootfs, legacyfs,
                   stack, child>>

(***************************************************************************)
(* main.cpp:940-951: allocate the child's stack.                           *)
(***************************************************************************)
AllocStack ==
    /\ pc = "alloc_stack"
    /\ \E malloc_ok \in BOOLEAN :
        IF malloc_ok
          THEN /\ stack' = "allocated"
               /\ pc' = "clone"
               /\ UNCHANGED <<cg, ws, symlinks, exitStatus, log>>
          ELSE /\ UNCHANGED stack
               /\ FailAfterRootfs(cg, log \o <<"malloc_failed">>)
    /\ UNCHANGED <<iza_dirs, image_rootfs, hist, clog, argv, args, store, cache, parent_pid, container_rootfs, legacyfs,
                   child>>

(***************************************************************************)
(* main.cpp:955-979: clone() the child into fresh namespaces.              *)
(***************************************************************************)
Clone ==
    /\ pc = "clone"
    /\ \E clone_ok \in BOOLEAN :
        IF clone_ok
          THEN /\ child' = [NoChild EXCEPT !.state = "running",
                                             !.pc = "sethostname",
                                             !.pid = parent_pid + NumPids]
               /\ pc' = "add_process"
               /\ log' = log \o <<"clone">>
               /\ UNCHANGED <<stack, cg, ws, symlinks, exitStatus>>
          ELSE /\ stack' = "freed"
               /\ UNCHANGED child
               /\ FailAfterRootfs(cg, log \o <<"clone_failed", "free_stack">>)
    /\ UNCHANGED <<iza_dirs, image_rootfs, hist, clog, argv, args, store, cache, parent_pid, container_rootfs, legacyfs>>

(***************************************************************************)
(* CgroupManager::add_process (main.cpp:634-648): the object afterwards.   *)
(* The write of a pid that is no longer alive attaches nothing.            *)
(***************************************************************************)
add_process(c, pid, alive, open_ok) ==
    IF c.created /\ open_ok /\ alive THEN [c EXCEPT !.procs = @ \cup {pid}] ELSE c

\* main.cpp:981-992
AddProcess ==
    /\ pc = "add_process"
    /\ IF use_cgroups
         THEN \E open_ok \in BOOLEAN :
                /\ cg' = add_process(cg, child.pid, child.state = "running", open_ok)
                /\ log' = log \o (IF cg.created /\ open_ok THEN <<"attach">>
                                   ELSE <<"attach_failed">>)
         ELSE UNCHANGED <<cg, log>>
    /\ pc' = "waitpid"
    /\ UNCHANGED <<iza_dirs, image_rootfs, hist, clog, argv, args, store, cache, parent_pid, container_rootfs, ws,
                   symlinks, legacyfs, stack, child, exitStatus>>

(***************************************************************************)
(* main.cpp:994-1003: waitpid.  It returns the status of a child that has  *)
(* exited, or fails (EINTR, ECHILD) whatever the child is doing.           *)
(***************************************************************************)
WaitPid ==
    /\ pc = "waitpid"
    /\ \/ /\ child.state = "exited"
          /\ child' = [child EXCEPT !.state = "reaped"]
          /\ pc' = "finish"
          /\ log' = log \o <<"waitpid_ok">>
          /\ UNCHANGED <<stack, cg, ws, symlinks, exitStatus>>
       \/ /\ child.state \in {"running", "exited"}
          /\ stack' = "freed"
          /\ UNCHANGED child
          /\ FailAfterRootfs(cg, log \o <<"waitpid_failed", "free_stack">>)
    /\ UNCHANGED <<iza_dirs, image_rootfs, hist, clog, argv, args, store, cache, parent_pid, container_rootfs, legacyfs>>

(***************************************************************************)
(* <sys/wait.h>: a wait status is code * 256 for a normal exit and the     *)
(* signal number for a death by signal.                                    *)
(***************************************************************************)
ExitedStatus(code) == (code % 256) * 256
SignaledStatus(sig) == sig

WIFEXITED(status) == status % 128 = 0
WEXITSTATUS(status) == (status \div 256) % 256
WIFSIGNALED(status) == status % 128 # 0
WTERMSIG(status) == status % 128

\* the variant of the translation that reports a signal as the bare number
exit_code_of_plain_signal(status) ==
    IF WIFEXITED(status) THEN WEXITSTATUS(status)
    ELSE IF WIFSIGNALED(status) THEN WTERMSIG(status)
    ELSE 0

\* main.cpp:1016-1027: what main returns for the child's wait status
exit_code_of(status) ==
    IF WIFEXITED(status) THEN WEXITSTATUS(status)
    ELSE IF WIFSIGNALED(status) THEN 128 + WTERMSIG(status)
    ELSE 0

(***************************************************************************)
(* main.cpp:1005-1027: the cleanup after a reaped child and the exit code. *)
(***************************************************************************)
Finish ==
    /\ pc = "finish"
    /\ stack' = "freed"
    /\ IF args.image_name # EmptyStr
         THEN /\ ws' = cleanup_overlay(ws)
              /\ symlinks' = remove_symlink(symlinks, parent_pid)
              /\ Return(exit_code_of(child.status), cg,
                        log \o <<"free_stack", "cleanup_overlay", "remove_symlink">>)
         ELSE /\ UNCHANGED <<ws, symlinks>>
              /\ Return(exit_code_of(child.status), cg, log \o <<"free_stack">>)
    /\ UNCHANGED <<iza_dirs, image_rootfs, hist, clog, argv, args, store, cache, parent_pid, container_rootfs, legacyfs,
                   child>>

(***************************************************************************)
(* The child, container_child (main.cpp:746-808).                          *)
(***************************************************************************)
\* getppid() in the child: the parent lives outside the child's new PID
\* namespace (CLONE_NEWPID, main.cpp:956), so the kernel reports 0
getppid_in_child == 0

\* main.cpp:756-764: the path the child chroots into
child_rootfs_path(a) ==
    IF a.image_name # EmptyStr THEN [kind |-> "link", n |-> getppid_in_child]
    ELSE [kind |-> "legacy", n |-> 0]

\* main.cpp:879: the path under which the parent publishes the rootfs
published_rootfs_path(pid) == [kind |-> "link", n |-> pid]

\* the path names an existing directory
PathExists(p) ==
    CASE p.kind = "link" ->
           /\ p.n \in DOMAIN symlinks
           /\ symlinks[p.n] # "none"
           /\ ws.exists
           /\ symlinks[p.n] \in ws.sub
      [] p.kind = "legacy" -> legacyfs
      [] OTHER -> FALSE

\* the wait status of a child that ended by exit(val) or by signal val
wait_status(how, val) ==
    IF how = "exit" THEN ExitedStatus(val) ELSE SignaledStatus(val)

\* the child ends, by exit(r) or by a signal, and leaves its cgroup
ChildDies(how, r, event) ==
    /\ child' = [child EXCEPT !.state = "exited", !.pc = "dead", !.how = how,
                              !.val = IF how = "exit" THEN r % 256 ELSE r,
                              !.status = wait_status(how, r)]
    /\ cg' = [cg EXCEPT !.procs = @ \ {child.pid}]
    /\ clog' = clog \o <<event>>

ChildStep(to, event) ==
    /\ child' = [child EXCEPT !.pc = to]
    /\ clog' = clog \o <<event>>
    /\ UNCHANGED cg

ParentVars == <<argv, args, pc, store, cache, parent_pid, container_rootfs, ws,
                symlinks, legacyfs, stack, exitStatus, log, iza_dirs,
                image_rootfs, hist>>

\* main.cpp:751-754: a failure is reported and ignored
ChildSetHostname ==
    /\ child.state = "running" /\ child.pc = "sethostname"
    /\ \E ok \in BOOLEAN :
         ChildStep("chroot", IF ok THEN "child_sethostname" ELSE "child_sethostname_failed")
    /\ UNCHANGED ParentVars

\* main.cpp:756-770
ChildChroot ==
    /\ child.state = "running" /\ child.pc = "chroot"
    /\ LET path == child_rootfs_path(args) IN
       \E permitted \in BOOLEAN :
         IF permitted /\ PathExists(path)
           THEN /\ child' = [child EXCEPT !.pc = "chdir", !.rootfs_path = path]
                /\ clog' = clog \o <<"child_chroot">>
                /\ UNCHANGED cg
           ELSE /\ child' = [child EXCEPT !.state = "exited", !.pc = "dead",
                                          !.how = "exit", !.val = (0 - 1) % 256,
                                          !.status = wait_status("exit", 0 - 1),
                                          !.rootfs_path = path]
                /\ cg' = [cg EXCEPT !.procs = @ \ {child.pid}]
                /\ clog' = clog \o <<"child_chroot_failed">>
    /\ UNCHANGED ParentVars

\* a child that reports a failed chdir and carries on
ChildChdirIgnored ==
    /\ child.state = "running" /\ child.pc = "chdir"
    /\ \E ok \in BOOLEAN :
         ChildStep("mount_proc", IF ok THEN "child_chdir" ELSE "child_chdir_failed")
    /\ UNCHANGED ParentVars

\* main.cpp:772-776
ChildChdir ==
    /\ child.state = "running" /\ child.pc = "chdir"
    /\ \E ok \in BOOLEAN :
         IF ok THEN ChildStep("mount_proc", "child_chdir")
         ELSE ChildDies("exit", 0 - 1, "child_chdir_failed")
    /\ UNCHANGED ParentVars

\* main.cpp:778-781: a failure is reported and ignored
ChildMountProc ==
    /\ child.state = "running" /\ child.pc = "mount_proc"
    /\ \E ok \in BOOLEAN :
         ChildStep("mount_tmp", IF ok THEN "child_mount_proc" ELSE "child_mount_proc_failed")
    /\ UNCHANGED ParentVars

\* main.cpp:783-786: a failure is reported and ignored
ChildMountTmp ==
    /\ child.state = "running" /\ child.pc = "mount_tmp"
    /\ \E ok \in BOOLEAN :
         ChildStep("execv", IF ok THEN "child_mount_tmp" ELSE "child_mount_tmp_failed")
    /\ UNCHANGED ParentVars

\* the null pointer that ends an argument vector
nullptr == <<"nullptr">>

\* a vector that leaves out the program name
exec_args_without_name(a) == Tail(a.command) \o <<nullptr>>

\* main.cpp:794-799: the vector handed to execv
exec_args(a) == a.command \o <<nullptr>>

\* main.cpp:794-805: execv(exec_args[0], exec_args.data())
ChildExecv ==
    /\ child.state = "running" /\ child.pc = "execv"
    /\ LET c == [child EXCEPT !.exec_path = exec_args(args)[1],
                              !.exec_args = exec_args(args)] IN
       \E ok \in BOOLEAN :
         /\ clog' = clog \o <<IF ok THEN "child_execv" ELSE "child_execv_failed">>
         /\ IF ok
              THEN /\ child' = [c EXCEPT !.pc = "command"]
                   /\ UNCHANGED cg
              ELSE /\ child' = [c EXCEPT !.state = "exited", !.pc = "dead",
                                         !.how = "exit", !.val = (0 - 1) % 256,
                                         !.status = wait_status("exit", 0 - 1)]
                   /\ cg' = [cg EXCEPT !.procs = @ \ {child.pid}]
    /\ UNCHANGED ParentVars

\* the user command, once executed, exits with a code of its own
ChildCommandExit ==
    /\ child.state = "running" /\ child.pc = "command"
    /\ \E code \in 0..MaxExitCode : ChildDies("exit", code, "child_exit")
    /\ UNCHANGED ParentVars

\* a signal (the OOM killer's SIGKILL, a SIGTERM) ends the child at any point
ChildKilled ==
    /\ child.state = "running"
    /\ \E sig \in Signals : ChildDies("signal", sig, "child_killed")
    /\ UNCHANGED ParentVars

(***************************************************************************)
(* The specification.                                                      *)
(***************************************************************************)
Next ==
    \/ ParseArgs
    \/ PullImage
    \/ ListImages
    \/ ResolveImage
    \/ SetupLegacy
    \/ SetupOverlay
    \/ CreateSymlink
    \/ CreateCgroup
    \/ SetMemoryLimit
    \/ SetCpuLimit
    \/ AllocStack
    \/ Clone
    \/ AddProcess
    \/ WaitPid
    \/ Finish
    \/ ChildSetHostname
    \/ ChildChroot
    \/ ChildChdir
    \/ ChildMountProc
    \/ ChildMountTmp
    \/ ChildExecv
    \/ ChildCommandExit
    \/ ChildKilled

Spec == Init /\ [][Next]_vars

(***************************************************************************)
(* Vocabulary of the properties.                                           *)
(***************************************************************************)
Logged(e) == e \in Range(log)

\* the parent has exited (by return from main or by abort)
Exited == pc = "done"

IsRun == args.valid /\ args.command_type = <<"run">>
IsImageRun == IsRun /\ args.image_name # EmptyStr

\* the log position i follows a successful clone with no successful waitpid
\* in between
UnreapedAt(i) ==
    \E j \in 1..(i - 1) :
        /\ log[j] = "clone"
        /\ \A k \in (j + 1)..(i - 1) : log[k] # "waitpid_ok"

\* the --memory value is one set_memory_limit has to refuse
InvalidMemory ==
    /\ IsRun
    /\ args.memory_limit # EmptyStr
    /\ parse_memory_limit(args.memory_limit) <= 0

\* the --cpus value is zero, negative or not a number
InvalidCpu ==
    /\ IsRun
    /\ args.cpu_limit # EmptyStr
    /\ (~stod(args.cpu_limit).ok \/ stod(args.cpu_limit).num <= 0)

\* operations that create something outside the process
SideEffects ==
    {"overlay_mounted", "deep_copy", "deep_copy_failed", "symlink", "setup_legacy",
     "create_cgroup", "clone"}

(***************************************************************************)
(* C1.  On every exit path of an image-based run the overlay workspace     *)
(* /var/lib/iza/overlay/<container_id>/ is absent when the process exits.  *)
(* The code returns from a failed deep copy without removing the partial   *)
(* workspace (main.cpp:459-462, 872-876).                                  *)
(***************************************************************************)
C1_OverlayAbsentAtExit == (Exited /\ IsImageRun) => ~ws.exists

(***************************************************************************)
(* C2.  When the child of a run with limits was created and reaped, the    *)
(* cgroup scope directory created by the invocation no longer exists once  *)
(* the process has exited, whatever the child's exit status.               *)
(***************************************************************************)
C2_CgroupRemovedAfterReap == (Exited /\ child.state = "reaped") => ~cg.dir

C2_Witness ==
    /\ Exited
    /\ child.state = "reaped"
    /\ child.how = "signal"
    /\ Logged("create_cgroup") /\ Logged("attach") /\ Logged("cgroup_rmdir")
    /\ ~cg.dir

(***************************************************************************)
(* C3.  The rootfs of the container is torn down only after the child has  *)
(* been reaped: no cleanup_overlay happens between a successful clone and  *)
(* the return of the child's status by waitpid.  The waitpid error path    *)
(* (main.cpp:994-1003) tears it down without having reaped the child.      *)
(***************************************************************************)
C3_TeardownAfterReap ==
    \A i \in 1..Len(log) : log[i] = "cleanup_overlay" => ~UnreapedAt(i)

(***************************************************************************)
(* C4.  The rmdir of the cgroup scope happens only after the child has     *)
(* been reaped, so the scope holds no live process at that time, also when *)
(* waitpid fails.  On the waitpid error path the destructor runs rmdir     *)
(* with the child unreaped and possibly alive in the scope.                *)
(***************************************************************************)
C4_RmdirAfterReap ==
    /\ \A i \in 1..Len(log) :
          log[i] \in {"cgroup_rmdir", "cgroup_rmdir_busy"} => ~UnreapedAt(i)
    /\ ~Logged("cgroup_rmdir_busy")

(***************************************************************************)
(* C5.  In an image-based run the path the child chroots into is the path  *)
(* under which the parent published the rootfs.  The child names it after  *)
(* getppid(), which is 0 inside its new PID namespace.                     *)
(***************************************************************************)
C5_ChildRootfsIsPublished ==
    child.rootfs_path.kind = "link" =>
        child.rootfs_path = published_rootfs_path(parent_pid)

C7_InvalidLimitBeforeSideEffects ==
    \A i \in 1..Len(log) :
        (/\ log[i] \in {"set_memory_failed", "set_cpu_failed", "stod_throws"}
         /\ (IF log[i] = "set_memory_failed" THEN InvalidMemory ELSE InvalidCpu))
        => /\ \A j \in 1..(i - 1) : log[j] \notin SideEffects
           /\ Exited => exitStatus = ExitCode(1)

(***************************************************************************)
(* C8.  For a --memory value that does not parse or that is 0 bytes the    *)
(* run fails before any child is spawned: clone is never invoked and the   *)
(* process exits non-zero.                                                 *)
(***************************************************************************)
C8_InvalidMemoryNoChild ==
    InvalidMemory =>
        /\ ~Logged("clone")
        /\ child.state = "none"
        /\ ~Logged("set_memory")
        /\ Exited => exitStatus # ExitCode(0)

C8_Witness ==
    /\ Exited
    /\ InvalidMemory
    /\ parse_memory_limit(args.memory_limit) = 0
    /\ Logged("create_cgroup") /\ Logged("set_memory_failed")
    /\ exitStatus = ExitCode(1)

(***************************************************************************)
(* C9.  A --cpus value that is zero, negative or not a number is a fatal   *)
(* error: exit status 1, no child, and the workspace, the symlink and the  *)
(* cgroup directory torn down before exit.  For a value without digits     *)
(* std::stod throws (main.cpp:614), nothing catches it, and the process    *)
(* aborts with everything left in place.                                   *)
(***************************************************************************)
C9_InvalidCpuIsFatal ==
    (Exited /\ InvalidCpu /\ (Logged("set_cpu_failed") \/ Logged("stod_throws"))) =>
        /\ exitStatus = ExitCode(1)
        /\ ~Logged("clone")
        /\ ~ws.exists
        /\ symlinks[parent_pid] = "none"
        /\ ~cg.dir

(***************************************************************************)
(* C10.  "iza pull IMAGE" exits with status 0 when the pull succeeds and   *)
(* with status 1 on any failure.  main returns pull_image's -1             *)
(* (main.cpp:828-830), which is exit status 255.                           *)
(***************************************************************************)
C10_PullExitStatus ==
    (Exited /\ args.command_type = <<"pull">>) =>
        exitStatus = ExitCode(IF Logged("pull_ok") THEN 0 ELSE 1)

\* the invocation is a pull of a reference
IsPull == args.valid /\ args.command_type = <<"pull">>

(***************************************************************************)
(* C11.  After a pull that fails in extraction, resolve of the reference   *)
(* returns absent.  extract_image creates <images>/<ref>/rootfs/ before it *)
(* opens the archive (main.cpp:331-333) and every failure return leaves    *)
(* the directory in place (main.cpp:354-359, 366-370, 384-388, 393-397),   *)
(* so get_image_rootfs finds rootfs/ and returns its path.                 *)
(***************************************************************************)
C11_FailedPullResolvesAbsent ==
    (Exited /\ IsPull /\ Logged("extract_started") /\ Logged("pull_failed")) =>
        get_image_rootfs(store, args.image_name) = EmptyStr

(***************************************************************************)
(* The image store over several invocations of iza.  Each invocation is    *)
(* one process: it parses its arguments and pulls, lists or resolves.      *)
(* What a run does after it has resolved its image (main.cpp:869-1027)     *)
(* reads the image's rootfs and writes only below the overlay directory,   *)
(* so the store is the same when the next invocation starts.               *)
(***************************************************************************)
StoreArgvs ==
    {<<(<<"iza">>), (<<"pull">>), r>> : r \in ImageRefs}
    \cup {<<(<<"iza">>), (<<"run">>), r>> : r \in {ALPINE_318, ALPINE, ALPINE_LATEST}}
    \cup {<<(<<"iza">>), (<<"images">>)>>}

\* a store whose record holds a file that is in no archive
StaleStore == [r \in ImageRefs |-> IF r = ALPINE_318 THEN StaleRecord ELSE AbsentRecord]

InitStore ==
    /\ argv \in StoreArgvs
    /\ args = DefaultArguments
    /\ pc = "start"
    /\ store \in StoreInputs \cup {StaleStore}
    /\ cache = [r \in ImageRefs |-> "absent"]
    /\ parent_pid \in 1..NumPids
    /\ container_rootfs = "none"
    /\ ws = NoWorkspace
    /\ symlinks = [n \in 0..NumPids |-> "none"]
    /\ legacyfs = FALSE
    /\ cg = NoCgroup
    /\ stack = "none"
    /\ child = NoChild
    /\ exitStatus = Running
    /\ log = <<>>
    /\ clog = <<>>
    /\ iza_dirs \in {{}, {"images", "cache", "overlay"}}
    /\ (iza_dirs = {}) => (store = [r \in ImageRefs |-> AbsentRecord])
    /\ image_rootfs = EmptyStr
    /\ hist = NoHistory(store, cache)

\* the invocation has finished with the image store
StoreStepsOver ==
    \/ pc \in {"done", "setup_overlay"}
    \/ pc = "run" /\ args.image_name = EmptyStr

\* the next invocation starts: a new process with its own arguments
NextInvocation ==
    /\ StoreStepsOver
    /\ hist.n < MaxInvocations
    /\ argv' \in StoreArgvs
    /\ args' = DefaultArguments
    /\ pc' = "start"
    /\ exitStatus' = Running
    /\ log' = <<>>
    /\ image_rootfs' = EmptyStr
    /\ hist' = [hist EXCEPT !.n = @ + 1, !.store0 = store, !.cache0 = cache]
    /\ UNCHANGED <<store, cache, iza_dirs, parent_pid, container_rootfs, ws, symlinks,
                   legacyfs, cg, stack, child, clog>>

NextStore ==
    \/ ParseArgs
    \/ PullImage
    \/ ListImages
    \/ ResolveImage
    \/ NextInvocation

SpecStore == InitStore /\ [][NextStore]_vars

\* this invocation has resolved the image of its run
Resolved == IsImageRun /\ (Logged("resolve_ok") \/ Logged("image_not_found"))

(***************************************************************************)
(* C12.  When the latest pull of a reference succeeded, every resolve of   *)
(* the reference since then (by any later invocation, with no pull of the  *)
(* reference in between) returns a path that is not absent and is the one  *)
(* the first of those resolves returned; and resolve leaves the image      *)
(* store as it was.                                                        *)
(***************************************************************************)
C12_ResolveStableAfterPull ==
    /\ [](  (Resolved /\ hist.lastPull[args.image_name] = "ok") =>
               /\ image_rootfs # EmptyStr
               /\ Head(image_rootfs) = "/var/lib/iza/images"
               /\ image_rootfs = hist.firstResolve[args.image_name])
    /\ [][ResolveImage => store' = store /\ cache' = cache]_vars

C12_Witness ==
    /\ Resolved
    /\ hist.lastPull[args.image_name] = "ok"
    /\ hist.resolves[args.image_name] = 2
    /\ image_rootfs = rootfs_dir(args.image_name)

\* the record a successful pull leaves where there was none
SinglePullRecord ==
    extract_image(AbsentRecord, [res |-> "ok", n |-> Len(ArchiveEntries)])

(***************************************************************************)
(* C13.  pull is idempotent on the image store: when a successful pull of  *)
(* X follows a successful pull of X, the record of X is the one the first  *)
(* pull left and the one a single pull leaves where there was no record    *)
(* (no file of an earlier record survives), and no other record changes.   *)
(***************************************************************************)
C13_PullIdempotent ==
    (Exited /\ IsPull /\ Logged("pull_ok") /\ hist.okPulls[args.image_name] >= 2) =>
        /\ store[args.image_name] = hist.firstContent[args.image_name]
        /\ store[args.image_name] = SinglePullRecord
        /\ \A r \in ImageRefs \ {args.image_name} : store[r] = hist.store0[r]

C13_Witness ==
    /\ Exited /\ IsPull /\ Logged("pull_ok")
    /\ hist.okPulls[args.image_name] = 2
    /\ store[args.image_name].files = Range(ArchiveEntries)

(***************************************************************************)
(* C14.  A reference without a colon denotes tag latest in the store:      *)
(* after a successful pull of "alpine" the cache entry and the image       *)
(* record of "alpine:latest" exist and resolve of "alpine:latest" is not   *)
(* absent.  pull_image splits name and tag only for the allow-list and the *)
(* URL; the cache file and the image directory are named by the reference  *)
(* as given (main.cpp:199, 206).                                           *)
(***************************************************************************)
C14_NoColonMeansLatest ==
    (Exited /\ IsPull /\ args.image_name = ALPINE /\ Logged("pull_ok")) =>
        /\ cache[ALPINE_LATEST] = "complete"
        /\ get_image_rootfs(store, ALPINE_LATEST) # EmptyStr

\* events of the download and extraction steps of a pull
PullStepEvents ==
    {"download_" \o dl : dl \in DownloadOutcomes}
    \cup {"extract_started", "extract_ok", "extract_open_failed", "extract_entry_failed"}

(***************************************************************************)
(* C15.  A pull of a reference whose name is neither ubuntu nor alpine     *)
(* fails and leaves every cache entry and every image record as the        *)
(* invocation found them; it attempts no download and no extraction.       *)
(***************************************************************************)
C15_UnsupportedPullTouchesNothing ==
    (Exited /\ IsPull /\ name_of(args.image_name) \notin {<<"ubuntu">>, <<"alpine">>}) =>
        /\ exitStatus.code # 0
        /\ cache = hist.cache0
        /\ store = hist.store0
        /\ Range(log) \cap PullStepEvents = {}

C15_Witness ==
    /\ Exited /\ IsPull /\ args.image_name = FOO_1
    /\ Logged("pull_unsupported")
    /\ cache[ALPINE_318] = "complete"
    /\ store[ALPINE_318] = CompleteRecord

(***************************************************************************)
(* C16.  When the GET of a pull ends with a non-2xx response or with a     *)
(* transport error (a premature close is one), the pull fails, no file of  *)
(* the download is left in the cache, extraction is not started and the    *)
(* image record of the reference is the one the invocation found.          *)
(* download_file tests only the result of curl_easy_perform                *)
(* (main.cpp:309-318), which is CURLE_OK for a response with an error      *)
(* status because CURLOPT_FAILONERROR is not set (main.cpp:303-306).       *)
(***************************************************************************)
C16_FailedDownloadStopsPull ==
    (/\ Exited /\ IsPull
     /\ Logged("download_http_error") \/ Logged("download_transport_error")) =>
        /\ Logged("pull_failed")
        /\ cache[args.image_name] = "absent"
        /\ ~Logged("extract_started")
        /\ store[args.image_name] = hist.store0[args.image_name]

\* the number of arguments the flag at position i of av takes up: two for
\* "--memory VALUE" and "--cpus VALUE", one for "--memory=VALUE" and
\* "--cpus=VALUE", none when the argument at i is no flag with a value
FlagWidth(av, i) ==
    IF av[i] \in {<<"--memory">>, <<"--cpus">>} /\ i < Len(av) THEN 2
    ELSE IF av[i] # <<>> /\ Head(av[i]) \in {"--memory=", "--cpus="} THEN 1
    ELSE 0

\* the position of the first positional argument at or after i, or Len(av) + 1
RECURSIVE FirstPositional(_, _)
FirstPositional(av, i) ==
    IF i > Len(av) \/ FlagWidth(av, i) = 0 THEN i
    ELSE FirstPositional(av, i + FlagWidth(av, i))

\* the arguments have been parsed and the subcommand is run
ParsedRun == pc # "start" /\ args.command_type = <<"run">>

(***************************************************************************)
(* C17.  For a run, the first argument after the leading flags is the      *)
(* image iff it contains a colon or names an image with a local rootfs;    *)
(* then the arguments after it are the command, /bin/bash when there are   *)
(* none.  Otherwise the image is empty and that argument and all after it  *)
(* are the command.  With no such argument the invocation is rejected.     *)
(***************************************************************************)
C17_RunPositionals ==
    ParsedRun =>
        LET n == Len(argv)
            p == FirstPositional(argv, 3)
        IN  IF p > n THEN ~args.valid
            ELSE /\ args.valid
                 /\ IF ":" \in Range(argv[p])
                       \/ (argv[p] \in ImageRefs /\ hist.store0[argv[p]].rootfs)
                      THEN /\ args.image_name = argv[p]
                           /\ args.command = IF p = n THEN <<(<<"/bin/bash">>)>>
                                             ELSE SubSeq(argv, p + 1, n)
                      ELSE /\ args.image_name = EmptyStr
                           /\ args.command = SubSeq(argv, p, n)

C17_Witness ==
    /\ ParsedRun
    /\ args.memory_limit # EmptyStr
    /\ args.image_name = ALPINE
    /\ args.command = <<BIN_SH>>

\* av with every leading "--memory VALUE" and "--cpus VALUE" from position i
\* on written as "--memory=VALUE" and "--cpus=VALUE"
RECURSIVE EqualsForm(_, _)
EqualsForm(av, i) ==
    IF i > Len(av) \/ FlagWidth(av, i) = 0 THEN av
    ELSE IF FlagWidth(av, i) = 1 THEN EqualsForm(av, i + 1)
    ELSE EqualsForm(SubSeq(av, 1, i - 1) \o <<(<<av[i][1] \o "=">> \o av[i + 1])>>
                        \o SubSeq(av, i + 2, Len(av)),
                    i + 1)

\* av with every leading "--memory=VALUE" and "--cpus=VALUE" from position i
\* on written as two arguments
RECURSIVE SpaceForm(_, _)
SpaceForm(av, i) ==
    IF i > Len(av) \/ FlagWidth(av, i) = 0 THEN av
    ELSE IF FlagWidth(av, i) = 2 THEN SpaceForm(av, i + 2)
    ELSE SpaceForm(SubSeq(av, 1, i - 1)
                       \o <<(IF Head(av[i]) = "--memory=" THEN <<"--memory">>
                             ELSE <<"--cpus">>),
                            Tail(av[i])>>
                       \o SubSeq(av, i + 1, Len(av)),
                   i + 2)

\* the arguments before position p of av
LeadingFlags(av, p) == {av[i] : i \in 3..(p - 1)}

(***************************************************************************)
(* C18.  A run parses to the same limits, image, command and validity      *)
(* when its leading flags are written "--memory VALUE" / "--cpus VALUE" as *)
(* when they are written "--memory=VALUE" / "--cpus=VALUE", and no         *)
(* argument of a leading flag is the image or the head of the command.     *)
(***************************************************************************)
C18_FlagFormsAgree ==
    ParsedRun =>
        /\ parse(EqualsForm(argv, 3), hist.store0) = args
        /\ parse(SpaceForm(argv, 3), hist.store0) = args
        /\ FirstPositional(argv, 3) > 3 =>
              /\ args.memory_limit # EmptyStr \/ args.cpu_limit # EmptyStr
              /\ args.image_name # argv[3]
              /\ args.command = <<>> \/ Head(args.command) # argv[3]

C18_Witness ==
    /\ ParsedRun /\ args.valid
    /\ argv[3] = <<"--memory">>
    /\ args.memory_limit = <<"1", "0", "0", "m">>
    /\ args.cpu_limit = <<"0", ".", "5">>
    /\ EqualsForm(argv, 3)[3] = <<"--memory=", "1", "0", "0", "m">>
    /\ Len(EqualsForm(argv, 3)) = Len(argv) - 2

\* the literal matches ^[0-9]+[bkmgBKMG]?$
MatchesGrammar(limit) ==
    /\ limit # <<>>
    /\ isdigit(limit[1])
    /\ \A i \in 1..(Len(limit) - 1) : isdigit(limit[i])
    /\ \/ isdigit(limit[Len(limit)])
       \/ limit[Len(limit)] \in {"b", "k", "m", "g", "B", "K", "M", "G"}

(***************************************************************************)
(* C20.  A memory limit whose literal does not match ^[0-9]+[bkmgBKMG]?$   *)
(* is rejected by set_memory_limit and nothing is written to memory.max.   *)
(* std::stoll reads the longest prefix that is a number and ignores what   *)
(* follows it (main.cpp:673), so "1xm" is taken as 1m.                     *)
(***************************************************************************)
C20_OutsideGrammarRejected ==
    (IsRun /\ args.memory_limit # EmptyStr /\ ~MatchesGrammar(args.memory_limit)) =>
        /\ ~Logged("set_memory")
        /\ cg.memory_max = NoCgroup.memory_max

(***************************************************************************)
(* parse_memory_limit in the width of long long.  Numbers are sequences of *)
(* decimal digits, most significant first, with a sign, so that 64-bit     *)
(* values and their products can be written down.                          *)
(***************************************************************************)
\* the longest literals tried digit by digit
MaxDigits == 2

\* magnitudes of LLONG_MAX and LLONG_MIN
LLONG_MAX_Digits == <<9, 2, 2, 3, 3, 7, 2, 0, 3, 6, 8, 5, 4, 7, 7, 5, 8, 0, 7>>
LLONG_MIN_Digits == <<9, 2, 2, 3, 3, 7, 2, 0, 3, 6, 8, 5, 4, 7, 7, 5, 8, 0, 8>>

\* the magnitude does not fit a long long of that sign
OutOfLongLong(neg, mag) ==
    Greater(mag, IF neg THEN LLONG_MIN_Digits ELSE LLONG_MAX_Digits)

\* the return value -1, with the reason for it
MinusOne(why) == [kind |-> why, neg |-> TRUE, mag |-> <<1>>]

\* std::stoll (main.cpp:673) in full width: std::invalid_argument without a
\* digit, std::out_of_range beyond long long
stoll_ll(str) ==
    LET s    == SkipSpace(str)
        neg  == s # <<>> /\ Head(s) = "-"
        body == IF s # <<>> /\ Head(s) \in {"-", "+"} THEN Tail(s) ELSE s
        n    == DigitPrefixLen(body)
        mag  == StripZeros(ToDigits(SubSeq(body, 1, n)))
    IN  IF n = 0 THEN [kind |-> "invalid_argument", neg |-> FALSE, mag |-> <<0>>]
        ELSE IF OutOfLongLong(neg, mag)
          THEN [kind |-> "out_of_range", neg |-> neg, mag |-> mag]
        ELSE [kind |-> "value", neg |-> neg, mag |-> mag]

\* num * 1024LL, k times over (main.cpp:677-679); a product that does not
\* fit is signed overflow, for which the language defines no result
RECURSIVE times_1024(_, _)
times_1024(num, k) ==
    IF k = 0 \/ num.kind # "value" THEN num
    ELSE LET p == Times(num.mag, 1024) IN
         IF OutOfLongLong(num.neg, p)
           THEN [kind |-> "overflow", neg |-> num.neg, mag |-> p]
           ELSE times_1024([num EXCEPT !.mag = p], k - 1)

\* the power of 1024 of a unit letter (main.cpp:675-679)
unit_power(unit) ==
    CASE unit = "k" -> 1 [] unit = "m" -> 2 [] unit = "g" -> 3 [] OTHER -> 0

\* CgroupManager::parse_memory_limit (main.cpp:661-685) in full width:
\* kind is "value" for a computed number, "overflow" where the multiplication
\* has no defined result, and the reason where -1 is returned
parse_memory_limit_ll(limit) ==
    IF limit = <<>> THEN MinusOne("empty")
    ELSE LET last    == limit[Len(limit)]
             unit    == IF ~isdigit(last) THEN tolower(last) ELSE "b"
             num_str == IF ~isdigit(last) THEN SubSeq(limit, 1, Len(limit) - 1)
                        ELSE limit
             num     == stoll_ll(num_str)
         IN  IF num.kind # "value" THEN MinusOne(num.kind)
             ELSE IF unit \notin {"b", "k", "m", "g"} THEN MinusOne("unknown_unit")
             ELSE times_1024(num, unit_power(unit))

\* what the build can leave in bytes after the overflow: a wrapped value
\* below, at or above zero
OverflowResults ==
    {[kind |-> "value", neg |-> TRUE, mag |-> <<1>>],
     [kind |-> "value", neg |-> FALSE, mag |-> <<0>>],
     [kind |-> "value", neg |-> FALSE, mag |-> <<1, 0, 2, 4>>]}

\* bytes <= 0 (main.cpp:595)
memory_limit_invalid_ll(bytes) == bytes.neg \/ bytes.mag = <<0>>

(***************************************************************************)
(* Runs "iza run --memory LIMIT /bin/sh" for literals of the grammar       *)
(* ^[0-9]+[bkmgBKMG]?$, up to the memory limit being set.                  *)
(***************************************************************************)
MemDigits == {"0", "1", "9"}

Suffixes ==
    {<<>>, <<"b">>, <<"k">>, <<"m">>, <<"g">>, <<"B">>, <<"K">>, <<"M">>, <<"G">>}

\* numbers at the edges of long long and of its products with 1024^k
LongNumbers ==
    {<<"1", "0", "0">>, <<"1", "0", "2", "4">>,
     <<"8", "5", "8", "9", "9", "3", "4", "5", "9", "1">>,
     <<"8", "5", "8", "9", "9", "3", "4", "5", "9", "2">>,
     <<"9", "9", "9", "9", "9", "9", "9", "9", "9", "9">>,
     <<"9", "0", "0", "7", "1", "9", "9", "2", "5", "4", "7", "4", "0", "9", "9", "1">>,
     <<"9", "0", "0", "7", "1", "9", "9", "2", "5", "4", "7", "4", "0", "9", "9", "2">>,
     <<"9", "2", "2", "3", "3", "7", "2", "0", "3", "6", "8", "5", "4", "7", "7", "5", "8", "0", "7">>,
     <<"9", "2", "2", "3", "3", "7", "2", "0", "3", "6", "8", "5", "4", "7", "7", "5", "8", "0", "8">>}

MemLiterals ==
    {d \o sfx : d \in LongNumbers \cup UNION {[1..n -> MemDigits] : n \in 1..MaxDigits},
                sfx \in Suffixes}

MemArgvs ==
    {<<(<<"iza">>), (<<"run">>), (<<"--memory">>), l, BIN_SH>> : l \in MemLiterals}

InitMem ==
    /\ argv \in MemArgvs
    /\ args = DefaultArguments
    /\ pc = "start"
    /\ store = [r \in ImageRefs |-> AbsentRecord]
    /\ cache = [r \in ImageRefs |-> "absent"]
    /\ parent_pid = 1
    /\ container_rootfs = "none"
    /\ ws = NoWorkspace
    /\ symlinks = [n \in 0..NumPids |-> "none"]
    /\ legacyfs = FALSE
    /\ cg = NoCgroup
    /\ stack = "none"
    /\ child = NoChild
    /\ exitStatus = Running
    /\ log = <<>>
    /\ clog = <<>>
    /\ iza_dirs = {"images", "cache", "overlay"}
    /\ image_rootfs = EmptyStr
    /\ hist = NoHistory(store, cache)

\* CgroupManager::set_memory_limit (main.cpp:591-609) for the value bytes
\* that parse_memory_limit returned
set_memory_limit_ll(c, bytes, open_ok) ==
    IF c.created /\ ~memory_limit_invalid_ll(bytes) /\ open_ok
      THEN [c EXCEPT !.memory_max = bytes.mag]
      ELSE c

\* main.cpp:915-925 with parse_memory_limit in full width
SetMemoryLimitLL ==
    /\ pc = "set_memory"
    /\ args.memory_limit # EmptyStr
    /\ LET r == parse_memory_limit_ll(args.memory_limit) IN
       \E open_ok \in BOOLEAN,
          bytes \in (IF r.kind = "overflow" THEN OverflowResults ELSE {r}) :
            LET parsed == <<"parse_" \o r.kind>> IN
            IF ~cg.created \/ memory_limit_invalid_ll(bytes)
              THEN FailAfterRootfs(cg, log \o parsed \o <<"set_memory_failed">>)
            ELSE IF ~open_ok
              THEN FailAfterRootfs(cg, log \o parsed
                                       \o <<"memory_max_open_failed", "set_memory_failed">>)
            ELSE /\ cg' = set_memory_limit_ll(cg, bytes, open_ok)
                 /\ pc' = "set_cpu"
                 /\ log' = log \o parsed \o <<"set_memory">>
                 /\ UNCHANGED <<ws, symlinks, exitStatus>>
    /\ UNCHANGED <<iza_dirs, image_rootfs, hist, clog, argv, args, store, cache,
                   parent_pid, container_rootfs, legacyfs, stack, child>>

NextMem ==
    \/ ParseArgs
    \/ SetupLegacy
    \/ CreateCgroup
    \/ SetMemoryLimitLL

SpecMem == InitMem /\ [][NextMem]_vars

\* n * 1024^k for the literal, as digits
ExactBytes(limit) ==
    LET last == limit[Len(limit)]
        n    == IF isdigit(last) THEN limit ELSE SubSeq(limit, 1, Len(limit) - 1)
        k    == CASE last \in {"k", "K"} -> 1 [] last \in {"m", "M"} -> 2
                  [] last \in {"g", "G"} -> 3 [] OTHER -> 0
        d0   == StripZeros(ToDigits(n))
        d1   == IF k >= 1 THEN Times(d0, 1024) ELSE d0
        d2   == IF k >= 2 THEN Times(d1, 1024) ELSE d1
    IN  IF k >= 3 THEN Times(d2, 1024) ELSE d2

\* main has called set_memory_limit and memory.max could be opened
MemoryLimitSet ==
    /\ Logged("set_memory") \/ Logged("set_memory_failed")
    /\ ~Logged("memory_max_open_failed")

(***************************************************************************)
(* C19.  For every literal of ^[0-9]+[bkmgBKMG]?$ parse_memory_limit ends  *)
(* without an error and without overflow, and n * 1024^k is the number     *)
(* written to memory.max (nothing is written for 0, which set_memory_limit *)
(* refuses).  std::stoll throws std::out_of_range for n above LLONG_MAX,   *)
(* which becomes -1 (main.cpp:673, 682-684), and n * 1024LL^k overflows    *)
(* long long for n * 1024^k above LLONG_MAX (main.cpp:677-679).            *)
(***************************************************************************)
C19_ParseMemoryLimitTotal ==
    (MemoryLimitSet /\ MatchesGrammar(args.memory_limit)) =>
        /\ Logged("parse_value")
        /\ IF ExactBytes(args.memory_limit) = <<0>> THEN Logged("set_memory_failed")
           ELSE /\ Logged("set_memory")
                /\ cg.memory_max = ExactBytes(args.memory_limit)

(***************************************************************************)
(* Runs "iza run --cpus CORES /bin/sh" for decimal literals, up to the CPU *)
(* limit being set.                                                        *)
(***************************************************************************)
\* the most fractional digits of the literals tried digit by digit
MaxFracDigits == 2

CpuDigits == {"0", "2", "5", "9"}

\* <<>> and the digit strings of up to n digits
DigitStrings(n) == UNION {[1..k -> CpuDigits] : k \in 0..n}

CpuLiterals ==
    {<<i>> \o (IF f = <<>> THEN <<>> ELSE <<".">> \o f) :
        i \in {"0", "1", "2"}, f \in DigitStrings(MaxFracDigits)}
    \cup {<<"0", ".", "0", "0", "0", "0", "1", "5">>,
          <<"1", ".", "9", "9", "9", "9", "9", "9">>,
          <<"1", "7", ".", "4">>}

CpuArgvs ==
    {<<(<<"iza">>), (<<"run">>), (<<"--cpus">>), l, BIN_SH>> : l \in CpuLiterals}

InitCpu ==
    /\ argv \in CpuArgvs
    /\ args = DefaultArguments
    /\ pc = "start"
    /\ store = [r \in ImageRefs |-> AbsentRecord]
    /\ cache = [r \in ImageRefs |-> "absent"]
    /\ parent_pid = 1
    /\ container_rootfs = "none"
    /\ ws = NoWorkspace
    /\ symlinks = [n \in 0..NumPids |-> "none"]
    /\ legacyfs = FALSE
    /\ cg = NoCgroup
    /\ stack = "none"
    /\ child = NoChild
    /\ exitStatus = Running
    /\ log = <<>>
    /\ clog = <<>>
    /\ iza_dirs = {"images", "cache", "overlay"}
    /\ image_rootfs = EmptyStr
    /\ hist = NoHistory(store, cache)

NextCpu ==
    \/ ParseArgs
    \/ SetupLegacy
    \/ CreateCgroup
    \/ SetMemoryLimit
    \/ SetCpuLimit

SpecCpu == InitCpu /\ [][NextCpu]_vars

\* the position of the "." in a literal, or one past its end
RECURSIVE DotAt(_, _)
DotAt(lit, i) == IF i > Len(lit) \/ lit[i] = "." THEN i ELSE DotAt(lit, i + 1)

\* the literal "I.F" as the fraction num / den
DecimalOf(lit) ==
    LET p == DotAt(lit, 1)
        f == SubSeq(lit, p + 1, Len(lit))
    IN  [num |-> DecimalValue(SubSeq(lit, 1, p - 1) \o f), den |-> Pow10(Len(f))]

\* round(cores * 100000), halves away from zero
RoundedQuota(lit) ==
    LET c == DecimalOf(lit) IN (2 * c.num * 100000 + c.den) \div (2 * c.den)

(***************************************************************************)
(* C21.  For every positive CPU limit set_cpu_limit writes                 *)
(* "<quota> 100000" to cpu.max with quota = round(cores * 100000).  The    *)
(* code converts the double product with (int), which truncates            *)
(* (main.cpp:618): 1.999999 gives 199999, and 0.29, whose product is       *)
(* 28999.999999999996 in binary floating point, gives 28999.               *)
(***************************************************************************)
C21_QuotaIsRounded ==
    (args.cpu_limit \in CpuLiterals /\ Logged("set_cpu")) =>
        cg.cpu_max = <<RoundedQuota(args.cpu_limit), 100000>>

(***************************************************************************)
(* Fairness: the parent and the child are processes the kernel keeps       *)
(* scheduling, and the user command ends, so a step that can be taken is   *)
(* taken eventually.  Every step lengthens a log or moves a program        *)
(* counter, so this is enough for each process to run to its end.          *)
(***************************************************************************)
SpecFair == Spec /\ WF_vars(Next)

\* nothing the invocation allocated is left: workspace, symlink, cgroup
\* scope, clone stack
CleanedUp ==
    /\ ~ws.exists
    /\ symlinks[parent_pid] = "none"
    /\ ~cg.dir
    /\ stack # "allocated"

(***************************************************************************)
(* C22.  Under fairness every run eventually exits, and it exits in the    *)
(* state CleanedUp.  The run does always exit; but setup_overlay's error   *)
(* return leaves the workspace of a failed deep copy (main.cpp:459-462,    *)
(* 872-876), the waitpid error path leaves the cgroup of a child that is   *)
(* still attached, and the std::stod exception of an unparsable --cpus     *)
(* ends the process in std::terminate with no cleanup at all               *)
(* (main.cpp:614).                                                         *)
(***************************************************************************)
C22_RunEndsCleanedUp == (pc = "run") ~> (Exited /\ CleanedUp)

(***************************************************************************)
(* OverlayFS driven call by call.  A workspace id embeds the pid and the   *)
(* start time (main.cpp:858), so a run meets its own workspace only; what  *)
(* a run that was interrupted left behind is drawn by the initial state:   *)
(* nothing, a mounted overlay, a full or a partial deep copy, or the       *)
(* directories of an overlay that was never mounted.  hist keeps the       *)
(* workspace after every call and the inputs and results of the last one.  *)
(***************************************************************************)
MaxCalls == 4

WorkspaceStates ==
    {NoWorkspace, overlay_workspace,
     fallback_workspace(NoWorkspace, TRUE), fallback_workspace(NoWorkspace, FALSE),
     create_overlay_dirs(NoWorkspace, TRUE), create_overlay_dirs(NoWorkspace, FALSE)}

NoCall ==
    [op |-> "none", supported_fs |-> FALSE, dirs_ok |-> FALSE, mount_ok |-> FALSE,
     copy_ok |-> FALSE, result |-> 0, threw |-> FALSE]

InitOverlay ==
    /\ argv = <<(<<"iza">>), (<<"run">>), ALPINE_318, BIN_SH>>
    /\ args = DefaultArguments
    /\ pc = "overlay"
    /\ store = [r \in ImageRefs |-> AbsentRecord]
    /\ cache = [r \in ImageRefs |-> "absent"]
    /\ parent_pid = 1
    /\ container_rootfs = "none"
    /\ ws \in WorkspaceStates
    /\ symlinks = [n \in 0..NumPids |-> "none"]
    /\ legacyfs = FALSE
    /\ cg = NoCgroup
    /\ stack = "none"
    /\ child = NoChild
    /\ exitStatus = Running
    /\ log = <<>>
    /\ clog = <<>>
    /\ iza_dirs = {"images", "cache", "overlay"}
    /\ image_rootfs = ALPINE_318
    /\ hist = [trace |-> <<ws>>, call |-> NoCall]

OverlayUnchanged ==
    UNCHANGED <<argv, args, pc, store, cache, parent_pid, symlinks, legacyfs, cg,
                stack, child, exitStatus, clog, iza_dirs, image_rootfs>>

\* overlay.setup_overlay(image_rootfs, container_id, container_rootfs)
CallSetupOverlay ==
    /\ Len(log) < MaxCalls
    /\ \E supported_fs \in BOOLEAN, dirs_ok \in BOOLEAN, mount_ok \in BOOLEAN,
          copy_ok \in BOOLEAN :
        LET r == setup_overlay(ws, supported_fs, dirs_ok, mount_ok, copy_ok) IN
        /\ ws' = r.ws
        /\ container_rootfs' = r.path
        /\ log' = Append(log, r.how)
        /\ hist' = [trace |-> Append(hist.trace, r.ws),
                    call |-> [op |-> "setup_overlay", supported_fs |-> supported_fs,
                              dirs_ok |-> dirs_ok, mount_ok |-> mount_ok,
                              copy_ok |-> copy_ok, result |-> r.result,
                              threw |-> r.threw]]
    /\ OverlayUnchanged

\* overlay.cleanup_overlay(container_id)
CallCleanupOverlay ==
    /\ Len(log) < MaxCalls
    /\ ws' = cleanup_overlay(ws)
    /\ log' = Append(log, "cleanup_overlay")
    /\ hist' = [trace |-> Append(hist.trace, ws'),
                call |-> [NoCall EXCEPT !.op = "cleanup_overlay"]]
    /\ OverlayUnchanged /\ UNCHANGED container_rootfs

NextOverlay == CallSetupOverlay \/ CallCleanupOverlay

SpecOverlay == InitOverlay /\ [][NextOverlay]_vars

\* the i-th call of the history was a successful assembly / a teardown
Assembled(i) == log[i] \in {"overlay_mounted", "deep_copy"}
TornDown(i) == log[i] = "cleanup_overlay"

\* C23: teardown is safe in every workspace state and idempotent.  After
\* cleanup_overlay, whatever the workspace was (never created, overlay mounted,
\* deep copy, partially assembled), the workspace directory is absent and
\* nothing is mounted at merged/; a teardown that follows a teardown changes
\* nothing; and assemble, teardown, assemble, teardown, started where the run's
\* workspace does not exist yet, ends with the overlay root as it was before
\* the first assemble, whichever strategy each assembly used.
C23_TeardownSafeAndIdempotent ==
    LET n == Len(log) IN
    /\ (n >= 1 /\ TornDown(n)) => (~ws.exists /\ ~ws.mounted /\ ws.sub = {})
    /\ (n >= 2 /\ TornDown(n) /\ TornDown(n - 1)) => ws = hist.trace[n]
    /\ (/\ n >= 4
        /\ Assembled(n - 3) /\ TornDown(n - 2) /\ Assembled(n - 1) /\ TornDown(n)
        /\ ~hist.trace[n - 3].exists)
       => (ws = hist.trace[n - 3] /\ iza_dirs = {"images", "cache", "overlay"})

\* an overlay-mounted assembly and a deep-copy assembly, each torn down
C23_Witness ==
    /\ log = <<"overlay_mounted", "cleanup_overlay", "deep_copy", "cleanup_overlay">>
    /\ hist.trace[1] = NoWorkspace
    /\ hist.trace[2].mounted
    /\ hist.trace[4].copy = "full"
    /\ ws = NoWorkspace

\* C24: rootfs assembly falls back transparently.  A setup_overlay call on a
\* workspace without a live mount returns 0 whenever the overlay was mounted
\* or the deep copy succeeded, whatever sent it to the fallback (overlay not
\* advertised, directory creation failed, validation or mount failed); on
\* success the returned path is merged/ with the overlay mounted there or
\* rootfs/ holding a full copy; and after the fallback no upper/, work/ or
\* merged/ remains in the workspace.
C24_FallbackTransparent ==
    LET c      == hist.call
        before == hist.trace[Len(hist.trace) - 1]
        direct == c.supported_fs /\ c.dirs_ok /\ c.mount_ok
    IN  (c.op = "setup_overlay" /\ ~before.mounted) =>
          /\ ~c.threw
          /\ (direct \/ c.copy_ok) => c.result = 0
          /\ c.result = 0 =>
               \/ /\ container_rootfs = "merged"
                  /\ ws.mounted /\ "merged" \in ws.sub
               \/ /\ container_rootfs = "rootfs"
                  /\ ~ws.mounted /\ "rootfs" \in ws.sub /\ ws.copy = "full"
          /\ ~direct => (ws.exists /\ ws.sub \cap {"upper", "work", "merged"} = {})

\* the mount failed after the three directories were created, and the copy
\* succeeded
C24_Witness ==
    /\ hist.call.op = "setup_overlay"
    /\ hist.call.supported_fs /\ hist.call.dirs_ok /\ ~hist.call.mount_ok
    /\ hist.call.copy_ok
    /\ hist.call.result = 0
    /\ container_rootfs = "rootfs"
    /\ ws.sub = {"rootfs"}

\* the teardown steps in the parent's log
CgroupDestroyAt(i) == log[i] \in {"cgroup_rmdir", "cgroup_rmdir_busy"}
StackFreeAt(i) == log[i] = "free_stack"
RootfsTeardownAt(i) ==
    /\ log[i] = "cleanup_overlay"
    /\ \E j \in 1..(i - 1) : log[j] \in {"overlay_mounted", "deep_copy"}

\* C25: on every path of iza run that tears down more than one resource the
\* steps occur in the order cgroup destroy, then rootfs teardown, then stack
\* deallocation: no rootfs teardown or free precedes the cgroup's rmdir, and
\* no free precedes the rootfs teardown.
C25_TeardownOrder ==
    IsRun =>
      \A i \in DOMAIN log, j \in DOMAIN log :
        /\ (CgroupDestroyAt(i) /\ RootfsTeardownAt(j)) => i < j
        /\ (RootfsTeardownAt(i) /\ StackFreeAt(j)) => i < j
        /\ (CgroupDestroyAt(i) /\ StackFreeAt(j)) => i < j

\* the place of a logged step in the life of the cgroup, 0 for other steps
CgroupRank(e) ==
    CASE e = "create_cgroup" -> 1
      [] e \in {"set_memory", "set_memory_failed"} -> 2
      [] e \in {"set_cpu", "set_cpu_failed", "stod_throws"} -> 3
      [] e \in {"clone", "clone_failed"} -> 4
      [] e \in {"attach", "attach_failed"} -> 5
      [] e \in {"waitpid_ok", "waitpid_failed"} -> 6
      [] e \in {"cgroup_rmdir", "cgroup_rmdir_busy"} -> 7
      [] OTHER -> 0

\* a CgroupManager whose create_cgroup did not succeed
Uncreated == [NoCgroup EXCEPT !.constructed = TRUE]

\* C26: the cgroup operations are ordered create, set_memory, set_cpu, clone,
\* attach, waitpid, destroy.  set_memory_limit, set_cpu_limit and add_process
\* write nothing and fail on a manager whose create_cgroup did not succeed; a
\* limit or a member is only ever present in a created scope; attach comes
\* after clone and before waitpid; the rmdir is the last cgroup operation.
C26_CgroupOrder ==
    /\ \A i \in DOMAIN log, j \in DOMAIN log :
         (i < j /\ CgroupRank(log[i]) > 0 /\ CgroupRank(log[j]) > 0)
           => CgroupRank(log[i]) < CgroupRank(log[j])
    /\ (cg.memory_max # NoLimit \/ cg.cpu_max[1] # NoLimit \/ cg.procs # {})
         => Logged("create_cgroup")
    /\ Logged("attach") => Logged("clone")
    /\ \A open_ok \in BOOLEAN :
         /\ \A l \in MemoryValues :
              /\ set_memory_limit_result(Uncreated, l, open_ok) = 0 - 1
              /\ set_memory_limit(Uncreated, l, open_ok) = Uncreated
         /\ \A l \in CpuValues :
              /\ set_cpu_limit_result(Uncreated, l, open_ok) = "fail"
              /\ set_cpu_limit(Uncreated, l, open_ok) = Uncreated
         /\ add_process(Uncreated, child.pid, TRUE, open_ok) = Uncreated

\* a run with both limits that went through every cgroup operation
C26_Witness ==
    /\ Exited
    /\ \A e \in {"create_cgroup", "set_memory", "set_cpu", "clone", "attach",
                 "waitpid_ok", "cgroup_rmdir"} : Logged(e)

\* the place of a step of container_child in its sequence, 0 for other events
ChildRank(e) ==
    CASE e \in {"child_sethostname", "child_sethostname_failed"} -> 1
      [] e \in {"child_chroot", "child_chroot_failed"} -> 2
      [] e \in {"child_chdir", "child_chdir_failed"} -> 3
      [] e \in {"child_mount_proc", "child_mount_proc_failed"} -> 4
      [] e \in {"child_mount_tmp", "child_mount_tmp_failed"} -> 5
      [] e \in {"child_execv", "child_execv_failed"} -> 6
      [] OTHER -> 0

ChildDid(e) == e \in Range(clog)

\* the child has called execv
ExecvCalled == ChildDid("child_execv") \/ ChildDid("child_execv_failed")

\* C27: the child performs its steps in the order sethostname, chroot,
\* chdir("/"), mount proc, mount tmpfs on /tmp, execv, none skipped or
\* repeated; no mount is attempted before chroot has succeeded; and execv is
\* called with the program name as path and the whole command vector, program
\* name first, followed by a null pointer.
C27_ChildSequence ==
    /\ \A i \in DOMAIN clog :
         ChildRank(clog[i]) > 0 => ChildRank(clog[i]) = i
    /\ \A i \in DOMAIN clog :
         ChildRank(clog[i]) \in {4, 5} =>
           \E j \in 1..(i - 1) : clog[j] = "child_chroot"
    /\ ExecvCalled =>
         /\ child.exec_args = args.command \o <<nullptr>>
         /\ child.exec_path = args.command[1]
         /\ child.exec_args[Len(child.exec_args)] = nullptr

\* a child that went through all six steps and executed a command of more
\* than one word
C27_Witness ==
    /\ ChildDid("child_execv")
    /\ Len(args.command) > 1
    /\ ChildDid("child_chroot")
    /\ ChildDid("child_mount_tmp")

Last(s) == s[Len(s)]

\* the child ended without calling execv
DiedBeforeExecv == child.pc = "dead" /\ ~ExecvCalled

\* C28: the child's failure policy.  A failed sethostname, mount of /proc or
\* mount of /tmp is reported and the child goes on to the next step, so a
\* child that ends before execv was stopped by chroot, by chdir or by a
\* signal; a failed chroot, chdir or execv ends the child with a non-zero
\* status (255) and the command never runs; and a parent that reaped such a
\* child exits with that status as its exit code.
C28_ChildFailurePolicy ==
    /\ (clog # <<>> /\ child.state = "running") =>
         /\ Last(clog) = "child_sethostname_failed" => child.pc = "chroot"
         /\ Last(clog) = "child_mount_proc_failed" => child.pc = "mount_tmp"
         /\ Last(clog) = "child_mount_tmp_failed" => child.pc = "execv"
    /\ DiedBeforeExecv =>
         Last(clog) \in {"child_chroot_failed", "child_chdir_failed", "child_killed"}
    /\ \A e \in {"child_chroot_failed", "child_chdir_failed", "child_execv_failed"} :
         ChildDid(e) =>
           /\ Last(clog) = e
           /\ child.pc = "dead"
           /\ child.how = "exit" /\ child.val = 255
           /\ ~ChildDid("child_execv") /\ ~ChildDid("child_exit")
           /\ (Exited /\ Logged("waitpid_ok")) =>
                exitStatus = [kind |-> "exit", code |-> 255]

\* all three non-fatal steps failed, execv failed too, and the parent
\* returned the child's status
C28_Witness ==
    /\ ChildDid("child_sethostname_failed")
    /\ ChildDid("child_mount_proc_failed")
    /\ ChildDid("child_mount_tmp_failed")
    /\ ChildDid("child_execv_failed")
    /\ Exited /\ Logged("waitpid_ok")
    /\ exitStatus = [kind |-> "exit", code |-> 255]

\* C29: in an image-based run the symlink /tmp/iza-container-<parent pid> is
\* removed on every exit path after its creation, so when the process has
\* exited no such symlink exists.
C29_NoSymlinkAtExit ==
    (Exited /\ IsImageRun) => symlinks[parent_pid] = "none"

\* the symlink outlives only a process that ended by the uncaught exception
SymlinkLeftOnlyByAbort ==
    (Exited /\ IsImageRun /\ ~Logged("stod_throws")) => symlinks[parent_pid] = "none"

====
